---------------------------- MODULE Spec2Model ----------------------------
(***************************************************************************)
(* A model of the query processing pipeline of db-chatbot:                 *)
(*   - src/src/utils/security.py        QuerySafetyChecker, RowLimitEnforcer*)
(*   - src/src/agents/validation_agent.py  ValidationAgent                 *)
(*   - src/src/agents/execution_agent.py   ExecutionAgent                  *)
(*   - src/src/agents/visualization_agent.py VisualizationAgent            *)
(*   - src/src/orchestrator.py          ChatbotOrchestrator.process_query  *)
(*   - src/src/agents/schema_agent.py  SchemaAgent                        *)
(*   - src/src/database/base.py        DatabaseConnector (schema cache)   *)
(*                                                                         *)
(* SQL text is a sequence of one-character strings, so that the regular    *)
(* expressions and the string methods of the code are computed character   *)
(* by character.                                                           *)
(***************************************************************************)
EXTENDS Integers, Sequences, FiniteSets, TLC

VARIABLES
    \* ---- one call of ChatbotOrchestrator.process_query ----
    pc,          \* position of the call in process_query
    settings,    \* Settings read by __init__: allow_destructive, max_query_rows, max_chart_points
    request,     \* ChatbotRequest: max_rows, include_visualization
    response,    \* ChatbotResponse: status, sql, validation, result, chart_html, error_message
    calls,       \* the agents invoked so far, in order, each with what it did
    exec_out,    \* the QueryResult as ExecutionAgent returned it
    raised,      \* TRUE when an exception left process_query
    \* ---- direct calls of the validator's functions (as the unit tests make) ----
    vpc,         \* "idle", or the function that was called
    vin,         \* its arguments
    vout,        \* its result
    \* ---- the DatabaseConnector ----
    schema_cache, \* DatabaseConnector._schema_cache
    \* ---- several calls of process_query that run at the same time ----
    requests,    \* for each of them: its position, its locals and its ChatbotResponse
    writers      \* the calls that assigned _schema_cache, in the order they did

vars ==
    <<pc, settings, request, response, calls, exec_out, raised, vpc, vin, vout, schema_cache,
      requests, writers>>

None == "None"

\* the calls of process_query that run at the same time
NumRequests == 2
Requests == 1..NumRequests

\* a call that has not started
NotStarted ==
    [ pc |-> "idle", user_query |-> <<>>, live |-> <<>>, next |-> 1,
      metadata_list |-> <<>>, tables |-> <<>>, response |-> <<>> ]

NoRequests == requests = [i \in Requests |-> NotStarted] /\ writers = <<>>

-----------------------------------------------------------------------------
(* Characters and Python's str / re primitives                             *)

LowerLetters ==
    {"a","b","c","d","e","f","g","h","i","j","k","l","m",
     "n","o","p","q","r","s","t","u","v","w","x","y","z"}

UpperLetters ==
    {"A","B","C","D","E","F","G","H","I","J","K","L","M",
     "N","O","P","Q","R","S","T","U","V","W","X","Y","Z"}

Digits == {"0","1","2","3","4","5","6","7","8","9"}

UpperMap ==
    [c \in LowerLetters |->
        CASE c = "a" -> "A" [] c = "b" -> "B" [] c = "c" -> "C" [] c = "d" -> "D"
          [] c = "e" -> "E" [] c = "f" -> "F" [] c = "g" -> "G" [] c = "h" -> "H"
          [] c = "i" -> "I" [] c = "j" -> "J" [] c = "k" -> "K" [] c = "l" -> "L"
          [] c = "m" -> "M" [] c = "n" -> "N" [] c = "o" -> "O" [] c = "p" -> "P"
          [] c = "q" -> "Q" [] c = "r" -> "R" [] c = "s" -> "S" [] c = "t" -> "T"
          [] c = "u" -> "U" [] c = "v" -> "V" [] c = "w" -> "W" [] c = "x" -> "X"
          [] c = "y" -> "Y" [] c = "z" -> "Z"]

\* str.upper(), one character
UpperChar(c) == IF c \in LowerLetters THEN UpperMap[c] ELSE c

\* str.upper()
RECURSIVE Upper(_)
Upper(s) == IF s = <<>> THEN <<>> ELSE <<UpperChar(Head(s))>> \o Upper(Tail(s))

\* re: \w, \s, \d and "." (which does not match a newline)
WordChars == LowerLetters \cup UpperLetters \cup Digits \cup {"_"}
SpaceChars == {" ", "\n", "\t", "\r"}
IsWordChar(c) == c \in WordChars
IsSpace(c) == c \in SpaceChars
IsDigit(c) == c \in Digits
IsDot(c) == c # "\n"

\* re: \b between s[i-1] and s[i], i in 1..Len(s)+1
AtBoundary(s, i) ==
    LET before == i > 1 /\ IsWordChar(s[i-1])
        after  == i <= Len(s) /\ IsWordChar(s[i])
    IN  before # after

\* the literal w stands at position i of s
LitAt(s, i, w) ==
    /\ i >= 1
    /\ i + Len(w) - 1 <= Len(s)
    /\ SubSeq(s, i, i + Len(w) - 1) = w

\* every character of s[a..b] satisfies the class (true of an empty range)
AllSpace(s, a, b) == \A k \in a..b : IsSpace(s[k])
AllDot(s, a, b) == \A k \in a..b : IsDot(s[k])

\* "w in s"
Contains(s, w) == \E i \in 1..(Len(s) - Len(w) + 1) : LitAt(s, i, w)

\* str.count(w): the non-overlapping occurrences, scanning from the left
RECURSIVE CountFrom(_, _, _)
CountFrom(s, w, i) ==
    IF i + Len(w) - 1 > Len(s) THEN 0
    ELSE IF LitAt(s, i, w) THEN 1 + CountFrom(s, w, i + Len(w))
    ELSE CountFrom(s, w, i + 1)

Count(s, w) == CountFrom(s, w, 1)

\* the end of the run of characters of a class that starts at i (i-1 if none)
RECURSIVE SpaceRunEnd(_, _)
SpaceRunEnd(s, i) ==
    IF i <= Len(s) /\ IsSpace(s[i]) THEN SpaceRunEnd(s, i + 1) ELSE i - 1

RECURSIVE DigitRunEnd(_, _)
DigitRunEnd(s, i) ==
    IF i <= Len(s) /\ IsDigit(s[i]) THEN DigitRunEnd(s, i + 1) ELSE i - 1

DigitValue(c) ==
    CASE c = "0" -> 0 [] c = "1" -> 1 [] c = "2" -> 2 [] c = "3" -> 3 [] c = "4" -> 4
      [] c = "5" -> 5 [] c = "6" -> 6 [] c = "7" -> 7 [] c = "8" -> 8 [] c = "9" -> 9

DigitChar(d) ==
    CASE d = 0 -> "0" [] d = 1 -> "1" [] d = 2 -> "2" [] d = 3 -> "3" [] d = 4 -> "4"
      [] d = 5 -> "5" [] d = 6 -> "6" [] d = 7 -> "7" [] d = 8 -> "8" [] d = 9 -> "9"

\* int(digits)
RECURSIVE ParseInt(_)
ParseInt(ds) ==
    IF ds = <<>> THEN 0
    ELSE 10 * ParseInt(SubSeq(ds, 1, Len(ds) - 1)) + DigitValue(ds[Len(ds)])

\* str(n) for n >= 0
RECURSIVE IntToStr(_)
IntToStr(n) ==
    IF n < 10 THEN <<DigitChar(n)>>
    ELSE Append(IntToStr(n \div 10), DigitChar(n % 10))

\* str.strip() = "" : only whitespace
IsBlank(s) == \A k \in 1..Len(s) : IsSpace(s[k])

\* str.strip()
RECURSIVE LStrip(_)
LStrip(s) == IF s # <<>> /\ IsSpace(s[1]) THEN LStrip(Tail(s)) ELSE s

RECURSIVE RStrip(_)
RStrip(s) ==
    IF s # <<>> /\ IsSpace(s[Len(s)]) THEN RStrip(SubSeq(s, 1, Len(s) - 1)) ELSE s

Strip(s) == LStrip(RStrip(s))

\* str.rstrip(';')
RECURSIVE RStripSemicolons(_)
RStripSemicolons(s) ==
    IF s # <<>> /\ s[Len(s)] = ";" THEN RStripSemicolons(SubSeq(s, 1, Len(s) - 1)) ELSE s

\* str.startswith(w)
StartsWith(s, w) == LitAt(s, 1, w)

\* s.endswith(w)
EndsWith(s, w) == Len(s) >= Len(w) /\ LitAt(s, Len(s) - Len(w) + 1, w)

-----------------------------------------------------------------------------
(* Keywords and messages of the code                                       *)

K_DROP == <<"D","R","O","P">>
K_TABLE == <<"T","A","B","L","E">>
K_DATABASE == <<"D","A","T","A","B","A","S","E">>
K_SCHEMA == <<"S","C","H","E","M","A">>
K_TRUNCATE == <<"T","R","U","N","C","A","T","E">>
K_DELETE == <<"D","E","L","E","T","E">>
K_FROM == <<"F","R","O","M">>
K_UPDATE == <<"U","P","D","A","T","E">>
K_SET == <<"S","E","T">>
K_LIMIT == <<"L","I","M","I","T">>
K_SELECT == <<"S","E","L","E","C","T">>
K_WITH == <<"W","I","T","H">>
K_EXEC == <<"E","X","E","C">>
K_XP_CMDSHELL == <<"X","P","_","C","M","D","S","H","E","L","L">>
K_JOIN == <<"J","O","I","N">>
K_GROUP_BY == <<"G","R","O","U","P"," ","B","Y">>
K_ORDER_BY == <<"O","R","D","E","R"," ","B","Y">>
K_DISTINCT == <<"D","I","S","T","I","N","C","T">>
K_ROW_NUMBER == <<"R","O","W","_","N","U","M","B","E","R">>
K_RANK == <<"R","A","N","K">>
K_LAG == <<"L","A","G">>
K_LEAD == <<"L","E","A","D">>

\* f"Destructive operation detected: {pattern}" is the pair <<prefix, pattern>>
DESTRUCTIVE_PREFIX == "Destructive operation detected: "
DANGEROUS_PREFIX == "Potentially dangerous pattern: "
SYNTAX_ERROR == <<"SQL syntax appears invalid">>
EMPTY_ERROR == <<"Empty SQL query">>
MULTIPLE_ERROR == <<"Multiple SQL statements not allowed">>
ROW_LIMIT_WARNING == "Query may return many rows. Limit will be enforced"
LOW_CONFIDENCE_WARNING == "Low confidence score"

-----------------------------------------------------------------------------
(* src/src/utils/security.py                                               *)

\* re.search(r"\bW1\s+W2\b", u)
SearchTwoWords(u, w1, w2) ==
    \E i \in 1..Len(u) :
        /\ LitAt(u, i, w1)
        /\ AtBoundary(u, i)
        /\ \E j \in (i + Len(w1) + 1)..Len(u) :
              /\ AllSpace(u, i + Len(w1), j - 1)
              /\ LitAt(u, j, w2)
              /\ AtBoundary(u, j + Len(w2))

\* re.search(r"\bW\b", u)
SearchWord(u, w) ==
    \E i \in 1..Len(u) :
        LitAt(u, i, w) /\ AtBoundary(u, i) /\ AtBoundary(u, i + Len(w))

\* re.search(r"\bUPDATE\s+.*\s+SET\b", u)
SearchUpdateSet(u) ==
    \E i \in 1..Len(u) :
        /\ LitAt(u, i, K_UPDATE)
        /\ AtBoundary(u, i)
        /\ \E a \in (i + Len(K_UPDATE) + 1)..Len(u) :
              /\ AllSpace(u, i + Len(K_UPDATE), a - 1)
              /\ \E b \in a..Len(u) :
                    /\ AllDot(u, a, b - 1)
                    /\ \E j \in (b + 1)..Len(u) :
                          /\ AllSpace(u, b, j - 1)
                          /\ LitAt(u, j, K_SET)
                          /\ AtBoundary(u, j + Len(K_SET))

\* QuerySafetyChecker.DESTRUCTIVE_KEYWORDS, in the order of the list
DESTRUCTIVE_KEYWORDS ==
    << "\\bDROP\\s+TABLE\\b", "\\bDROP\\s+DATABASE\\b", "\\bDROP\\s+SCHEMA\\b",
       "\\bTRUNCATE\\b", "\\bDELETE\\s+FROM\\b", "\\bUPDATE\\s+.*\\s+SET\\b" >>

\* re.search(pattern, sql_upper, re.IGNORECASE) for a pattern of DESTRUCTIVE_KEYWORDS
SearchDestructive(pattern, u) ==
    CASE pattern = "\\bDROP\\s+TABLE\\b"      -> SearchTwoWords(u, K_DROP, K_TABLE)
      [] pattern = "\\bDROP\\s+DATABASE\\b"   -> SearchTwoWords(u, K_DROP, K_DATABASE)
      [] pattern = "\\bDROP\\s+SCHEMA\\b"     -> SearchTwoWords(u, K_DROP, K_SCHEMA)
      [] pattern = "\\bTRUNCATE\\b"           -> SearchWord(u, K_TRUNCATE)
      [] pattern = "\\bDELETE\\s+FROM\\b"     -> SearchTwoWords(u, K_DELETE, K_FROM)
      [] pattern = "\\bUPDATE\\s+.*\\s+SET\\b" -> SearchUpdateSet(u)

\* QuerySafetyChecker.DANGEROUS_PATTERNS, in the order of the list
DANGEROUS_PATTERNS ==
    << "--", "/\\*.*\\*/", ";\\s*DROP", "EXEC\\s+", "xp_cmdshell" >>

\* re.search(pattern, sql, re.IGNORECASE) for a pattern of DANGEROUS_PATTERNS
SearchDangerous(pattern, sql) ==
    LET u == Upper(sql)
    IN  CASE pattern = "--" -> Contains(sql, <<"-", "-">>)
          [] pattern = "/\\*.*\\*/" ->
                \E i \in 1..Len(sql) :
                    /\ LitAt(sql, i, <<"/", "*">>)
                    /\ \E j \in (i + 2)..Len(sql) :
                          LitAt(sql, j, <<"*", "/">>) /\ AllDot(sql, i + 2, j - 1)
          [] pattern = ";\\s*DROP" ->
                \E i \in 1..Len(sql) :
                    /\ sql[i] = ";"
                    /\ \E j \in (i + 1)..Len(sql) :
                          AllSpace(sql, i + 1, j - 1) /\ LitAt(u, j, K_DROP)
          [] pattern = "EXEC\\s+" ->
                \E i \in 1..Len(sql) :
                    /\ LitAt(u, i, K_EXEC)
                    /\ i + Len(K_EXEC) <= Len(sql)
                    /\ IsSpace(sql[i + Len(K_EXEC)])
          [] pattern = "xp_cmdshell" -> Contains(u, K_XP_CMDSHELL)

\* the entries f"{prefix}{pattern}" for the patterns of the list that hit, in order
\* (hits[k] tells whether re.search found patterns[k])
RECURSIVE Detected(_, _, _, _)
Detected(patterns, hits, prefix, k) ==
    IF k > Len(patterns) THEN <<>>
    ELSE (IF hits[k] THEN << <<prefix, patterns[k]>> >> ELSE <<>>)
         \o Detected(patterns, hits, prefix, k + 1)

\* the patterns are searched in sql as written, not in its upper case
is_destructive_CaseSensitive(sql) ==
    LET hits == [k \in DOMAIN DESTRUCTIVE_KEYWORDS |->
                     SearchDestructive(DESTRUCTIVE_KEYWORDS[k], sql)]
        issues == Detected(DESTRUCTIVE_KEYWORDS, hits, DESTRUCTIVE_PREFIX, 1)
    IN  <<Len(issues) > 0, issues>>

\* QuerySafetyChecker.is_destructive: (is_destructive, issues)
is_destructive(sql) ==
    LET sql_upper == Upper(sql)
        hits == [k \in DOMAIN DESTRUCTIVE_KEYWORDS |->
                     SearchDestructive(DESTRUCTIVE_KEYWORDS[k], sql_upper)]
        issues == Detected(DESTRUCTIVE_KEYWORDS, hits, DESTRUCTIVE_PREFIX, 1)
    IN  <<Len(issues) > 0, issues>>

\* QuerySafetyChecker.check_dangerous_patterns: (has_dangerous, warnings)
check_dangerous_patterns(sql) ==
    LET hits == [k \in DOMAIN DANGEROUS_PATTERNS |->
                     SearchDangerous(DANGEROUS_PATTERNS[k], sql)]
        warnings == Detected(DANGEROUS_PATTERNS, hits, DANGEROUS_PREFIX, 1)
    IN  <<Len(warnings) > 0, warnings>>

\* the destructive issues are never added to the errors
QuerySafetyChecker_validate_query_NoDestructive(sql, allow_destructive) ==
    LET dangerous == check_dangerous_patterns(sql)
        w1 == IF dangerous[1] THEN dangerous[2] ELSE <<>>
        e2 == IF IsBlank(sql) THEN <<EMPTY_ERROR>> ELSE <<>>
        e3 == IF Count(sql, <<";">>) > 1 THEN <<MULTIPLE_ERROR>> ELSE <<>>
        errors == e2 \o e3
    IN  <<Len(errors) = 0, errors, w1>>

\* QuerySafetyChecker.validate_query: (is_safe, errors, warnings)
QuerySafetyChecker_validate_query(sql, allow_destructive) ==
    LET destructive == is_destructive(sql)
        dangerous == check_dangerous_patterns(sql)
        e1 == IF destructive[1] /\ ~allow_destructive THEN destructive[2] ELSE <<>>
        w1 == IF dangerous[1] THEN dangerous[2] ELSE <<>>
        e2 == IF IsBlank(sql) THEN <<EMPTY_ERROR>> ELSE <<>>
        e3 == IF Count(sql, <<";">>) > 1 THEN <<MULTIPLE_ERROR>> ELSE <<>>
        errors == e1 \o e2 \o e3
    IN  <<Len(errors) = 0, errors, w1>>

\* r"LIMIT\s+(\d+)" with re.IGNORECASE matches at position i of s (u = Upper(s))
LimitMatchAt(u, i) ==
    /\ LitAt(u, i, K_LIMIT)
    /\ LET e == SpaceRunEnd(u, i + Len(K_LIMIT))
       IN  e >= i + Len(K_LIMIT) /\ DigitRunEnd(u, e + 1) >= e + 1

\* the last position of that match, and the span of its group(1)
LimitMatchEnd(u, i) == DigitRunEnd(u, SpaceRunEnd(u, i + Len(K_LIMIT)) + 1)
LimitMatchGroup(s, u, i) ==
    SubSeq(s, SpaceRunEnd(u, i + Len(K_LIMIT)) + 1, LimitMatchEnd(u, i))

\* re.search(r"LIMIT\s+(\d+)", s, re.IGNORECASE): the leftmost match, 0 if none
LimitSearch(s) ==
    LET u == Upper(s)
        at == {i \in 1..Len(s) : LimitMatchAt(u, i)}
    IN  IF at = {} THEN 0 ELSE CHOOSE i \in at : \A j \in at : i <= j

\* re.sub(r"LIMIT\s+\d+", repl, s, flags=re.IGNORECASE), from position i on
RECURSIVE LimitSubFrom(_, _, _, _)
LimitSubFrom(s, u, repl, i) ==
    IF i > Len(s) THEN <<>>
    ELSE IF LimitMatchAt(u, i)
         THEN repl \o LimitSubFrom(s, u, repl, LimitMatchEnd(u, i) + 1)
         ELSE <<s[i]>> \o LimitSubFrom(s, u, repl, i + 1)

LimitSub(s, repl) == LimitSubFrom(s, Upper(s), repl, 1)

\* f"LIMIT {max_rows}"
LimitText(max_rows) == K_LIMIT \o <<" ">> \o IntToStr(max_rows)

\* RowLimitEnforcer.add_limit_clause, the branch that appends
AppendLimit(sql, max_rows) ==
    RStripSemicolons(sql) \o <<"\n">> \o LimitText(max_rows)

\* the LIMIT is appended whether or not the SQL has one
add_limit_clause_AlwaysAppend(sql, max_rows) == AppendLimit(sql, max_rows)

\* RowLimitEnforcer.add_limit_clause
add_limit_clause(sql, max_rows) ==
    LET sql_upper == Upper(sql)
        limit_match == LimitSearch(sql)
    IN  IF Contains(sql_upper, K_LIMIT) /\ limit_match # 0
        THEN LET existing_limit == ParseInt(LimitMatchGroup(sql, sql_upper, limit_match))
             IN  IF existing_limit <= max_rows
                 THEN sql
                 ELSE LimitSub(sql, LimitText(max_rows))
        ELSE AppendLimit(sql, max_rows)

\* RowLimitEnforcer.estimate_result_size
estimate_result_size(sql) ==
    LET limit_match == LimitSearch(sql)
    IN  IF limit_match # 0
        THEN ParseInt(LimitMatchGroup(sql, Upper(sql), limit_match))
        ELSE -1

-----------------------------------------------------------------------------
(* src/src/agents/validation_agent.py                                      *)
(* A candidate (SQLQuery) is [sql, tables_used, confidence_score]; the     *)
(* cost is in hundredths (1.0 is 100); the Optional confidence score is    *)
(* <<>> when absent and <<c>> when present, c in hundredths (0.6 is 60).   *)

\* the first word of the statement is not looked at
check_syntax_AnyStatement(sql) ==
    LET sql_upper == Strip(Upper(sql))
    IN  IF Count(sql, <<"(">>) # Count(sql, <<")">>)
        THEN FALSE
        ELSE IF StartsWith(sql_upper, K_SELECT) /\ ~Contains(sql_upper, K_FROM)
        THEN FALSE
        ELSE TRUE

\* ValidationAgent._check_syntax
check_syntax(sql) ==
    LET sql_upper == Strip(Upper(sql))
    IN  IF ~(StartsWith(sql_upper, K_SELECT) \/ StartsWith(sql_upper, K_WITH))
        THEN FALSE
        ELSE IF Count(sql, <<"(">>) # Count(sql, <<")">>)
        THEN FALSE
        ELSE IF StartsWith(sql_upper, K_SELECT) /\ ~Contains(sql_upper, K_FROM)
        THEN FALSE
        ELSE TRUE

Min(a, b) == IF a <= b THEN a ELSE b

\* rows[:n]
Prefix(rows, n) == SubSeq(rows, 1, Min(Len(rows), n))

\* every table and every JOIN makes the query cheaper
RawCost_Discount(sql, tables_used) ==
    100 - Len(tables_used) * 10 - Count(Upper(sql), K_JOIN) * 15

\* ValidationAgent._estimate_cost, before the cap
RawCost(sql, tables_used) ==
    LET sql_upper == Upper(sql)
        join_count == Count(sql_upper, K_JOIN)
        subquery_count == Count(sql_upper, K_SELECT) - 1
    IN  Len(tables_used) * 10
        + join_count * 15
        + subquery_count * 20
        + (IF Contains(sql_upper, K_GROUP_BY) THEN 15 ELSE 0)
        + (IF Contains(sql_upper, K_ORDER_BY) /\ ~Contains(sql_upper, K_LIMIT)
           THEN 10 ELSE 0)
        + (IF Contains(sql_upper, K_DISTINCT) THEN 10 ELSE 0)
        + (IF \E f \in {K_ROW_NUMBER, K_RANK, K_LAG, K_LEAD} : Contains(sql_upper, f)
           THEN 15 ELSE 0)

\* ValidationAgent._estimate_cost
estimate_cost(sql, tables_used) == Min(RawCost(sql, tables_used), 100)

\* step 3 of ValidationAgent.validate_query: is the limit enforced
NeedsLimit(sql, max_rows) ==
    LET estimated_rows == estimate_result_size(sql)
    IN  estimated_rows = -1 \/ estimated_rows > max_rows

\* step 5 of ValidationAgent.validate_query: is the confidence warning appended
LowConfidence(confidence_score) ==
    /\ confidence_score # <<>>
    /\ confidence_score[1] # 0
    /\ confidence_score[1] < 60

\* a query that fails the syntax check is not examined any further
ValidationAgent_validate_query_ShortCircuit(sql_query, allow_destructive, max_rows) ==
    LET sql == sql_query.sql
        e0 == IF ~check_syntax(sql) THEN <<SYNTAX_ERROR>> ELSE <<>>
        safety == IF e0 # <<>> THEN <<FALSE, <<>>, <<>>>>
                  ELSE QuerySafetyChecker_validate_query(sql, allow_destructive)
        w1 == IF NeedsLimit(sql, max_rows)
              THEN << <<ROW_LIMIT_WARNING, max_rows>> >> ELSE <<>>
        w2 == IF LowConfidence(sql_query.confidence_score)
              THEN << <<LOW_CONFIDENCE_WARNING, sql_query.confidence_score[1]>> >> ELSE <<>>
        errors == e0 \o safety[2]
        warnings == safety[3] \o w1 \o w2
        safe_to_execute == Len(errors) = 0
    IN  [ success |-> TRUE,
          data |-> [ is_valid |-> safe_to_execute,
                     errors |-> errors,
                     warnings |-> warnings,
                     estimated_cost |-> estimate_cost(sql, sql_query.tables_used),
                     safe_to_execute |-> safe_to_execute ],
          sql |-> IF NeedsLimit(sql, max_rows)
                  THEN add_limit_clause(sql, max_rows) ELSE sql ]

\* ValidationAgent.validate_query: the AgentResult, and in "sql" the candidate's
\* sql field as the call leaves it
ValidationAgent_validate_query(sql_query, allow_destructive, max_rows) ==
    LET sql == sql_query.sql
        e0 == IF ~check_syntax(sql) THEN <<SYNTAX_ERROR>> ELSE <<>>
        safety == QuerySafetyChecker_validate_query(sql, allow_destructive)
        w1 == IF NeedsLimit(sql, max_rows)
              THEN << <<ROW_LIMIT_WARNING, max_rows>> >> ELSE <<>>
        w2 == IF LowConfidence(sql_query.confidence_score)
              THEN << <<LOW_CONFIDENCE_WARNING, sql_query.confidence_score[1]>> >> ELSE <<>>
        errors == e0 \o safety[2]
        warnings == safety[3] \o w1 \o w2
        safe_to_execute == Len(errors) = 0
    IN  [ success |-> TRUE,
          data |-> [ is_valid |-> safe_to_execute,
                     errors |-> errors,
                     warnings |-> warnings,
                     estimated_cost |-> estimate_cost(sql, sql_query.tables_used),
                     safe_to_execute |-> safe_to_execute ],
          sql |-> IF NeedsLimit(sql, max_rows)
                  THEN add_limit_clause(sql, max_rows) ELSE sql ]

-----------------------------------------------------------------------------
(* The SQL texts the model tries: a head, then up to MaxTail tails         *)

F_Select == <<"S","E","L","E","C","T"," ","a"," ","F","R","O","M"," ","t">>
F_DropTable == <<"D","R","O","P"," ","T","A","B","L","E"," ","t">>
F_Truncate == <<"T","r","u","n","c","a","t","e">>
F_DeleteFrom == <<" ","d","e","l","e","t","e"," ","f","r","o","m"," ","t">>
F_Limit2 == <<" ","L","I","M","I","T"," ","2">>
F_limit7 == <<" ","l","i","m","i","t"," ","7">>
F_Semi == <<";">>
F_Space == <<" ">>

Heads == {<<>>, F_Select, F_DropTable}

Tails == {F_Truncate, F_DeleteFrom, F_Limit2, F_limit7, F_Semi, F_Space}

MaxTail == 2

RECURSIVE TextsOf(_)
TextsOf(n) ==
    IF n = 0 THEN Heads
    ELSE LET shorter == TextsOf(n - 1)
         IN  shorter \cup {t \o f : t \in shorter, f \in Tails}

SqlTexts == TextsOf(MaxTail)

\* the caps tried for max_rows
RowCaps == {1, 5}

\* the candidates handed to ValidationAgent.validate_query
Confidences == {<<>>, <<0>>, <<50>>, <<60>>, <<90>>}
TablesUsed == {<<>>, <<"t">>, <<"t", "u">>}
PlainSql == {F_Select, F_Select \o F_Limit2, F_DropTable}

Candidates ==
    {[sql |-> t, tables_used |-> <<"t">>, confidence_score |-> <<90>>] : t \in SqlTexts}
    \cup
    {[sql |-> t, tables_used |-> u, confidence_score |-> c] :
        t \in PlainSql, u \in TablesUsed, c \in Confidences}

-----------------------------------------------------------------------------
(* Direct calls of the validator's functions                               *)

\* test_agents.py calls RowLimitEnforcer.add_limit_clause(sql, max_rows)
CallAddLimitClause ==
    /\ vpc = "idle"
    /\ \E sql \in SqlTexts, max_rows \in RowCaps :
          /\ vin' = [sql |-> sql, max_rows |-> max_rows]
          /\ vout' = add_limit_clause(sql, max_rows)
    /\ vpc' = "add_limit_clause"
    /\ UNCHANGED <<pc, settings, request, response, calls, exec_out, raised, schema_cache, requests, writers>>

\* test_agents.py calls QuerySafetyChecker.validate_query(sql, allow_destructive)
CallSafetyValidate ==
    /\ vpc = "idle"
    /\ \E sql \in SqlTexts, allow_destructive \in BOOLEAN :
          /\ vin' = [sql |-> sql, allow_destructive |-> allow_destructive]
          /\ vout' = QuerySafetyChecker_validate_query(sql, allow_destructive)
    /\ vpc' = "safety_validate_query"
    /\ UNCHANGED <<pc, settings, request, response, calls, exec_out, raised, schema_cache, requests, writers>>

\* test_agents.py calls ValidationAgent(allow_destructive, max_rows).validate_query(sql_query, _)
CallValidateQuery ==
    /\ vpc = "idle"
    /\ \E sql_query \in Candidates, allow_destructive \in BOOLEAN, max_rows \in RowCaps :
          /\ vin' = [sql_query |-> sql_query, allow_destructive |-> allow_destructive,
                     max_rows |-> max_rows]
          /\ vout' = ValidationAgent_validate_query(sql_query, allow_destructive, max_rows)
    /\ vpc' = "validate_query"
    /\ UNCHANGED <<pc, settings, request, response, calls, exec_out, raised, schema_cache, requests, writers>>

\* the SQL texts whose cost is estimated: a head, up to MaxJoins JOINs, then
\* the other features the estimate looks at
F_Join == <<" ","J","O","I","N"," ","u">>
F_GroupOrder ==
    <<" ","G","R","O","U","P"," ","B","Y"," ","a"," ","O","R","D","E","R"," ","B","Y"," ","a">>
F_DistinctRankSub ==
    <<" ","D","I","S","T","I","N","C","T"," ","R","A","N","K"," ","(","S","E","L","E","C","T"," ","b",")">>

MaxJoins == 3

RECURSIVE Joins(_)
Joins(n) == IF n = 0 THEN <<>> ELSE F_Join \o Joins(n - 1)

CostTexts ==
    { head \o Joins(j) \o x \o y \o z :
        head \in {F_Select, F_DropTable}, j \in 0..MaxJoins,
        x \in {<<>>, F_GroupOrder}, y \in {<<>>, F_DistinctRankSub},
        z \in {<<>>, F_Limit2} }

\* ValidationAgent._estimate_cost(sql, tables_used), and the same query with
\* one more JOIN or one more table in tables_used
CallEstimateCost ==
    /\ vpc = "idle"
    /\ \E sql \in CostTexts, tables_used \in TablesUsed, grow \in {"join", "table"} :
          LET more_sql == IF grow = "join" THEN sql \o F_Join ELSE sql
              more_tables == IF grow = "table" THEN Append(tables_used, "v")
                             ELSE tables_used
          IN  /\ vin' = [sql |-> sql, tables_used |-> tables_used,
                         more_sql |-> more_sql, more_tables |-> more_tables]
              /\ vout' = [cost |-> estimate_cost(sql, tables_used),
                          more_cost |-> estimate_cost(more_sql, more_tables)]
    /\ vpc' = "estimate_cost"
    /\ UNCHANGED <<pc, settings, request, response, calls, exec_out, raised, schema_cache, requests, writers>>

\* add_limit_clause applied to its own result, with the same max_rows
CallAddLimitClauseAgain ==
    /\ vpc = "add_limit_clause"
    /\ vout' = [first |-> vout, second |-> add_limit_clause(vout, vin.max_rows)]
    /\ vpc' = "add_limit_clause_again"
    /\ UNCHANGED <<pc, settings, request, response, calls, exec_out, raised, vin, schema_cache, requests, writers>>

\* the same agent validates the candidate again; the first call left the
\* rewritten SQL in sql_query.sql (validation_agent.py line 61)
CallValidateQueryAgain ==
    /\ vpc = "validate_query"
    /\ vout' = [first |-> vout,
                second |-> ValidationAgent_validate_query(
                               [vin.sql_query EXCEPT !.sql = vout.sql],
                               vin.allow_destructive, vin.max_rows)]
    /\ vpc' = "validate_query_again"
    /\ UNCHANGED <<pc, settings, request, response, calls, exec_out, raised, vin, schema_cache, requests, writers>>

-----------------------------------------------------------------------------
(* src/src/agents/schema_agent.py: SchemaAgent._filter_relevant_tables     *)
(* A TableMetadata is [name, columns, row_count]; a column is [name].      *)

LowerMap ==
    [c \in UpperLetters |->
       CHOOSE l \in LowerLetters : UpperMap[l] = c]

\* str.lower()
LowerChar(c) == IF c \in UpperLetters THEN LowerMap[c] ELSE c
RECURSIVE Lower(_)
Lower(s) == IF s = <<>> THEN <<>> ELSE <<LowerChar(Head(s))>> \o Lower(Tail(s))

\* the end of the run of non-whitespace characters that starts at i
RECURSIVE WordEnd(_, _)
WordEnd(s, i) ==
    IF i <= Len(s) /\ ~IsSpace(s[i]) THEN WordEnd(s, i + 1) ELSE i - 1

\* set(s.split()), the words of s from position i on
RECURSIVE SplitFrom(_, _)
SplitFrom(s, i) ==
    IF i > Len(s) THEN {}
    ELSE IF IsSpace(s[i]) THEN SplitFrom(s, i + 1)
    ELSE {SubSeq(s, i, WordEnd(s, i))} \cup SplitFrom(s, WordEnd(s, i) + 1)

Split(s) == SplitFrom(s, 1)

\* line 115: all_tables[:20]
FallbackTables == 20

\* every table is handed on, however many there are
Fallback_All(all_tables) == all_tables

\* lines 113-115
Fallback(all_tables) == Prefix(all_tables, FallbackTables)

\* nothing is filtered
filter_relevant_tables_NoFilter(user_query, all_tables) == Fallback(all_tables)

\* SchemaAgent._filter_relevant_tables
filter_relevant_tables(user_query, all_tables) ==
    LET query_words == Split(Lower(user_query))
        InName(table) == \E word \in query_words : Contains(Lower(table.name), word)
        InColumns(table) ==
            \E k \in DOMAIN table.columns :
                \E word \in query_words : Contains(Lower(table.columns[k].name), word)
        Relevant(table) == InName(table) \/ InColumns(table)
        relevant_tables == SelectSeq(all_tables, Relevant)
    IN  IF relevant_tables = <<>> THEN Fallback(all_tables) ELSE relevant_tables

\* the catalogs tried: up to MaxCatalog different tables of the pool, and
\* FallbackTables - 1 .. MaxFillers tables "t", alone or before one of the pool
Column(name) == [name |-> name]
C_id == Column(<<"i","d">>)
T_users ==
    [name |-> <<"u","s","e","r","s">>,
     columns |-> <<C_id, Column(<<"e","m","a","i","l">>)>>, row_count |-> <<>>]
T_Orders ==
    [name |-> <<"O","r","d","e","r","s">>,
     columns |-> <<C_id, Column(<<"N","a","m","e">>)>>, row_count |-> <<>>]
T_small ==
    [name |-> <<"s","m","a","l","l">>, columns |-> <<C_id>>, row_count |-> <<>>]
T_products ==
    [name |-> <<"p","r","o","d","u","c","t","s">>,
     columns |-> <<C_id, Column(<<"p","r","i","c","e">>)>>, row_count |-> <<>>]
TablePool == {T_users, T_Orders, T_small, T_products}

Filler(k) == [name |-> <<"t">>, columns |-> <<C_id>>, row_count |-> <<k>>]
Fillers(n) == [k \in 1..n |-> Filler(k)]

MaxCatalog == 3
MaxFillers == 21

RECURSIVE CatalogsOf(_)
CatalogsOf(n) ==
    IF n = 0 THEN {<<>>}
    ELSE LET shorter == CatalogsOf(n - 1)
         IN  shorter \cup
             UNION { { Append(c, t) :
                         t \in {x \in TablePool : \A k \in DOMAIN c : c[k] # x} } :
                     c \in shorter }

Catalogs ==
    CatalogsOf(MaxCatalog)
    \cup { Fillers(n) : n \in (FallbackTables - 1)..MaxFillers }
    \cup { Append(Fillers(n), t) : n \in (FallbackTables - 1)..MaxFillers, t \in TablePool }

Q_ShowMeAllUsers ==
    <<"s","h","o","w"," ","m","e"," ","a","l","l"," ","u","s","e","r","s">>
Q_PriceOfProducts ==
    <<"P","R","I","C","E"," "," ","o","f","\t","p","r","o","d","u","c","t","s"," ">>
Q_Zzz == <<"z","z","z">>
Queries == {Q_ShowMeAllUsers, Q_PriceOfProducts, Q_Zzz, <<>>, <<" ">>}

\* test_agents.py filters a list of TableMetadata by the words of a query
CallFilterRelevantTables ==
    /\ vpc = "idle"
    /\ \E user_query \in Queries, all_tables \in Catalogs :
          /\ vin' = [user_query |-> user_query, all_tables |-> all_tables]
          /\ vout' = filter_relevant_tables(user_query, all_tables)
    /\ vpc' = "filter_relevant_tables"
    /\ UNCHANGED <<pc, settings, request, response, calls, exec_out, raised, schema_cache, requests, writers>>

\* str.replace(w, ""): every occurrence of w, from the left, is taken out
RECURSIVE Remove(_, _)
Remove(s, w) ==
    IF s = <<>> THEN <<>>
    ELSE IF LitAt(s, 1, w) THEN Remove(SubSeq(s, Len(w) + 1, Len(s)), w)
    ELSE <<Head(s)>> \o Remove(Tail(s), w)

S_id == <<"i","d">>
S__id == <<"_","i","d">>

\* sum(lists, [])
RECURSIVE Flatten(_)
Flatten(lists) == IF lists = <<>> THEN <<>> ELSE Head(lists) \o Flatten(Tail(lists))

\* lines 129-144 of SchemaAgent._infer_relationships: the relationships one
\* column of a table adds
ColumnRelationships(table, column, tables) ==
    LET col_name == Lower(column.name)
    IN  IF EndsWith(col_name, S__id) \/ EndsWith(col_name, S_id)
        THEN LET potential_table == Remove(Remove(col_name, S__id), S_id)
                 Referenced(other_table) == Lower(other_table.name) = potential_table
                 others == SelectSeq(tables, Referenced)
             IN  [k \in DOMAIN others |->
                    [ from_table |-> table.name, from_column |-> column.name,
                      to_table |-> others[k].name, to_column |-> S_id ]]
        ELSE <<>>

\* SchemaAgent._infer_relationships
infer_relationships(tables) ==
    Flatten([t \in DOMAIN tables |->
                Flatten([c \in DOMAIN tables[t].columns |->
                            ColumnRelationships(tables[t], tables[t].columns[c], tables)])])

\* the tables whose relationships are inferred
T_video == [name |-> <<"v","i","d","e","o">>, columns |-> <<C_id>>, row_count |-> <<>>]
T_comments ==
    [name |-> <<"c","o","m","m","e","n","t","s">>,
     columns |-> <<C_id, Column(<<"v","i","d","e","o","_","i","d">>),
                   Column(<<"u","s","e","r","s","i","d">>)>>,
     row_count |-> <<>>]
T_Teams ==
    [name |-> <<"T","e","a","m","s">>,
     columns |-> <<C_id, Column(<<"T","e","a","m","s","_","I","D">>)>>, row_count |-> <<>>]
RelatedPool == {T_video, T_comments, T_Teams, T_users}

MaxRelated == 3

RECURSIVE RelatedOf(_)
RelatedOf(n) ==
    IF n = 0 THEN {<<>>}
    ELSE LET shorter == RelatedOf(n - 1)
         IN  shorter \cup
             UNION { { Append(c, t) :
                         t \in {x \in RelatedPool : \A k \in DOMAIN c : c[k] # x} } :
                     c \in shorter }

\* get_schema_context hands the filtered tables to _infer_relationships
CallInferRelationships ==
    /\ vpc = "idle"
    /\ \E tables \in RelatedOf(MaxRelated) :
          /\ vin' = [tables |-> tables]
          /\ vout' = infer_relationships(tables)
    /\ vpc' = "infer_relationships"
    /\ UNCHANGED <<pc, settings, request, response, calls, exec_out, raised, schema_cache, requests, writers>>

PipelineIdle ==
    /\ pc = "idle"
    /\ settings = None
    /\ request = None
    /\ response = None
    /\ calls = <<>>
    /\ exec_out = None
    /\ raised = FALSE

ValidatorIdle ==
    /\ vpc = "idle"
    /\ vin = None
    /\ vout = None

\* base.py line 20: self._schema_cache = None
CacheEmpty == schema_cache = <<>>

InitValidator == PipelineIdle /\ ValidatorIdle /\ CacheEmpty /\ NoRequests

NextValidator ==
    \/ CallAddLimitClause
    \/ CallSafetyValidate
    \/ CallValidateQuery
    \/ CallAddLimitClauseAgain
    \/ CallValidateQueryAgain
    \/ CallEstimateCost
    \/ CallFilterRelevantTables
    \/ CallInferRelationships

SpecValidator == InitValidator /\ [][NextValidator]_vars

-----------------------------------------------------------------------------
(* src/src/database/base.py: the schema cache of the DatabaseConnector, and *)
(* SchemaAgent.get_schema_context on top of it.  The Optional cache is <<>> *)
(* when None and <<catalog>> when set.  What the database answers to a live *)
(* fetch is live: raises when get_tables raises, else the tables it lists   *)
(* and broken, the names of those whose get_table_metadata raises.          *)

\* DatabaseConnector.get_table_metadata, for a table the database describes
get_table_metadata(table, schema) ==
    [ name |-> table.name,
      schema |-> IF schema = <<>> THEN "default" ELSE schema[1],
      columns |-> table.columns,
      row_count |-> table.row_count ]

\* the catalog fetched is returned and not kept
get_all_table_metadata_NoStore(cache, schema, use_cache, live) ==
    IF use_cache /\ cache # <<>>
    THEN [raised |-> FALSE, result |-> cache[1], fetched |-> FALSE, cache |-> cache]
    ELSE IF live.raises
         THEN [raised |-> TRUE, result |-> <<>>, fetched |-> TRUE, cache |-> cache]
         ELSE LET Described(table) == table.name \notin live.broken
                  tables == SelectSeq(live.tables, Described)
                  metadata_list == [k \in DOMAIN tables |-> get_table_metadata(tables[k], schema)]
              IN  [raised |-> FALSE, result |-> metadata_list, fetched |-> TRUE,
                   cache |-> cache]

\* an empty cached catalog counts as a miss
get_all_table_metadata_Truthy(cache, schema, use_cache, live) ==
    IF use_cache /\ cache # <<>> /\ cache # << <<>> >>
    THEN [raised |-> FALSE, result |-> cache[1], fetched |-> FALSE, cache |-> cache]
    ELSE IF live.raises
         THEN [raised |-> TRUE, result |-> <<>>, fetched |-> TRUE, cache |-> cache]
         ELSE LET Described(table) == table.name \notin live.broken
                  tables == SelectSeq(live.tables, Described)
                  metadata_list == [k \in DOMAIN tables |-> get_table_metadata(tables[k], schema)]
              IN  [raised |-> FALSE, result |-> metadata_list, fetched |-> TRUE,
                   cache |-> <<metadata_list>>]

\* DatabaseConnector.get_all_table_metadata: whether it raised, the list it
\* returned, whether it fetched from the database, and the cache it leaves
get_all_table_metadata(cache, schema, use_cache, live) ==
    IF use_cache /\ cache # <<>>
    THEN [raised |-> FALSE, result |-> cache[1], fetched |-> FALSE, cache |-> cache]
    ELSE IF live.raises
         THEN [raised |-> TRUE, result |-> <<>>, fetched |-> TRUE, cache |-> cache]
         ELSE LET Described(table) == table.name \notin live.broken
                  tables == SelectSeq(live.tables, Described)
                  metadata_list == [k \in DOMAIN tables |-> get_table_metadata(tables[k], schema)]
              IN  [raised |-> FALSE, result |-> metadata_list, fetched |-> TRUE,
                   cache |-> <<metadata_list>>]

\* SchemaAgent.get_schema_context: the AgentResult (tables of its SchemaContext),
\* whether the database was asked, and the cache the call leaves
SchemaAgent_get_schema_context(cache, user_query, schema, use_cache, live) ==
    LET all_tables == get_all_table_metadata(cache, schema, use_cache, live)
    IN  IF all_tables.raised
        THEN [success |-> FALSE, tables |-> <<>>, relationships |-> <<>>,
              fetched |-> all_tables.fetched, cache |-> all_tables.cache]
        ELSE LET relevant_tables == filter_relevant_tables(user_query, all_tables.result)
             IN  [success |-> TRUE,
                  tables |-> relevant_tables,
                  relationships |-> infer_relationships(relevant_tables),
                  fetched |-> all_tables.fetched, cache |-> all_tables.cache]

\* what the model tries
Schemas == {<<>>, <<"public">>}
LiveCatalogs == {<<>>, <<T_users>>, <<T_Orders, T_users>>, <<T_products>>}
LiveOutcomes ==
    [raises : BOOLEAN, tables : LiveCatalogs, broken : {{}, {T_users.name}}]

CallGetAllTableMetadata ==
    /\ \E schema \in Schemas, use_cache \in BOOLEAN, live \in LiveOutcomes :
          LET r == get_all_table_metadata(schema_cache, schema, use_cache, live)
          IN  /\ vin' = [schema |-> schema, use_cache |-> use_cache]
              /\ vout' = [raised |-> r.raised, result |-> r.result, fetched |-> r.fetched]
              /\ schema_cache' = r.cache
    /\ vpc' = "get_all_table_metadata"
    /\ UNCHANGED <<pc, settings, request, response, calls, exec_out, raised, requests, writers>>

CallGetSchemaContext ==
    /\ \E user_query \in {Q_ShowMeAllUsers, Q_Zzz}, schema \in Schemas,
          use_cache \in BOOLEAN, live \in LiveOutcomes :
          LET r == SchemaAgent_get_schema_context(schema_cache, user_query, schema,
                                                  use_cache, live)
          IN  /\ vin' = [user_query |-> user_query, schema |-> schema,
                         use_cache |-> use_cache]
              /\ vout' = [success |-> r.success, tables |-> r.tables,
                          relationships |-> r.relationships, fetched |-> r.fetched]
              /\ schema_cache' = r.cache
    /\ vpc' = "get_schema_context"
    /\ UNCHANGED <<pc, settings, request, response, calls, exec_out, raised, requests, writers>>

\* ChatbotOrchestrator.clear_cache -> DatabaseConnector.clear_cache
CallClearCache ==
    /\ schema_cache' = <<>>
    /\ vin' = None
    /\ vout' = None
    /\ vpc' = "clear_cache"
    /\ UNCHANGED <<pc, settings, request, response, calls, exec_out, raised, requests, writers>>

InitSchema == PipelineIdle /\ ValidatorIdle /\ CacheEmpty /\ NoRequests

NextSchema == CallGetAllTableMetadata \/ CallGetSchemaContext \/ CallClearCache

SpecSchema == InitSchema /\ [][NextSchema]_vars

-----------------------------------------------------------------------------
(* src/src/agents/execution_agent.py, src/src/agents/visualization_agent.py *)
(* An Optional field is <<>> when None and <<v>> when set.  The rows of a   *)
(* result are <<1, ..., n>>.                                                *)

\* ExecutionAgent.execute_query: db is "raise" when DatabaseConnector.execute_query
\* raises, and the rows it returns otherwise
ExecutionAgent_execute_query(db, max_rows) ==
    IF db = "raise"
    THEN [success |-> FALSE, data |-> <<>>, error |-> <<"Database error: ", "error">>]
    ELSE LET truncated == max_rows # 0 /\ Len(db) > max_rows
             rows == IF truncated THEN Prefix(db, max_rows) ELSE db
         IN  [ success |-> TRUE,
               data |-> << [ data |-> rows,
                             columns |-> IF rows # <<>> THEN <<"a">> ELSE <<>>,
                             row_count |-> Len(rows),
                             truncated |-> truncated ] >>,
               error |-> <<>> ]

\* VisualizationAgent.generate_visualization: recommender is what
\* llm.generate_structured does in _determine_chart_type and renderer what
\* _create_chart does, "ok" or "raise". Gives the AgentResult and, in
\* query_result, the QueryResult argument as the call leaves it.
VisualizationAgent_generate_visualization(query_result, recommender, renderer, max_chart_points) ==
    IF query_result.data = <<>>
    THEN [success |-> TRUE, data |-> <<>>, query_result |-> query_result]
    ELSE LET limited ==
                 IF Len(query_result.data) > max_chart_points
                 THEN [query_result EXCEPT !.data = Prefix(@, max_chart_points)]
                 ELSE query_result
             chart_type == IF recommender = "ok" THEN "llm"
                           ELSE IF Len(limited.columns) >= 2 THEN "bar" ELSE "table"
         IN  IF renderer = "ok"
             THEN [success |-> TRUE, data |-> << <<"<html>", chart_type>> >>,
                   query_result |-> limited]
             ELSE [success |-> FALSE, data |-> <<>>, query_result |-> limited]

-----------------------------------------------------------------------------
(* src/src/orchestrator.py: ChatbotOrchestrator.process_query              *)
(* An agent call is one step; its outcome is "ok" (AgentResult.success),   *)
(* "fail" (success = False) or "raise" (an exception leaves the call).     *)

PENDING == "pending"
VALIDATING == "validating"
EXECUTING == "executing"
SUCCESS == "success"
FAILED == "failed"

\* lines 124-131: the ChatbotRequest; max_rows_arg is the max_rows parameter
\* of process_query (line 104), which stays in scope next to the request
NewRequest(max_rows, include_visualization, max_query_rows) ==
    [ max_rows |-> IF max_rows = <<>> \/ max_rows[1] = 0
                   THEN max_query_rows ELSE max_rows[1],
      max_rows_arg |-> max_rows,
      include_visualization |-> include_visualization ]

\* lines 138-141: the ChatbotResponse
NewResponse ==
    [ status |-> PENDING, sql |-> <<>>, validation |-> <<>>, result |-> <<>>,
      chart_html |-> <<>>, error_message |-> <<>> ]

\* the response is marked Failed and returned without a message
Fail_NoMessage(resp, message) ==
    [ pc |-> "done", response |-> [resp EXCEPT !.status = FAILED], raised |-> FALSE ]

\* response.status = FAILED; response.error_message = message; return response
Fail(resp, message) ==
    [ pc |-> "done",
      response |-> [resp EXCEPT !.status = FAILED, !.error_message = <<message>>],
      raised |-> FALSE ]

Continue(resp, next) == [pc |-> next, response |-> resp, raised |-> FALSE]

\* the exception is not caught and leaves process_query
OnException_Reraise(resp) == [pc |-> "done", response |-> resp, raised |-> TRUE]

\* lines 235-240: except Exception
OnException(resp) == Fail(resp, <<"Unexpected error: ", "exception">>)

\* "; ".join(errors)
RECURSIVE Join(_)
Join(errors) ==
    IF errors = <<>> THEN <<>>
    ELSE IF Len(errors) = 1 THEN errors[1]
    ELSE errors[1] \o <<"; ">> \o Join(Tail(errors))

\* the return after the schema failure is missing
AfterSchema_NoReturn(resp, schema_result) ==
    IF ~schema_result.success
    THEN Continue([resp EXCEPT !.status = FAILED,
                               !.error_message =
                                   << <<"Failed to get schema: ">> \o schema_result.error >>],
                  "generate")
    ELSE Continue(resp, "generate")

\* lines 151-156
AfterSchema(resp, schema_result) ==
    IF ~schema_result.success
    THEN Fail(resp, <<"Failed to get schema: ">> \o schema_result.error)
    ELSE Continue(resp, "generate")

\* the generation failure is recorded but the pipeline goes on to validation
AfterGeneration_NoReturn(resp, sql_result) ==
    IF ~sql_result.success
    THEN Continue([resp EXCEPT !.status = FAILED,
                               !.error_message =
                                   << <<"Failed to generate SQL: ">> \o sql_result.error >>],
                  "validate")
    ELSE Continue([resp EXCEPT !.sql = sql_result.data, !.status = VALIDATING],
                  "validate")

\* lines 165-174
AfterGeneration(resp, sql_result) ==
    IF ~sql_result.success
    THEN Fail(resp, <<"Failed to generate SQL: ">> \o sql_result.error)
    ELSE Continue([resp EXCEPT !.sql = sql_result.data, !.status = VALIDATING],
                  "validate")

\* the gate lets every validated query through
Blocked_Never(validation) == FALSE

\* line 188: the safety gate
Blocked(validation) == ~validation.safe_to_execute

\* lines 181-195; validation rewrote the candidate's sql in place
AfterValidation(resp, validation_result) ==
    IF ~validation_result.success
    THEN Fail(resp, <<"Validation failed: ">> \o validation_result.error)
    ELSE LET r == [resp EXCEPT !.sql = <<[@[1] EXCEPT !.sql = validation_result.sql]>>,
                               !.validation = <<validation_result.data>>]
         IN  IF Blocked(validation_result.data)
             THEN Fail(r, <<"Query failed safety validation: ">>
                          \o Join(validation_result.data.errors))
             ELSE Continue([r EXCEPT !.status = EXECUTING], "execute")

\* lines 222-233
Succeed(resp) == Continue([resp EXCEPT !.status = SUCCESS], "done")

\* a chart is attempted for every result
WantsChart_Always(include_visualization, result) == TRUE

\* line 210
WantsChart(include_visualization, result) ==
    include_visualization /\ result.row_count > 0

\* a failed execution drops the validation outcome from the response
AfterExecution_Forgets(resp, execution_result, include_visualization) ==
    IF ~execution_result.success
    THEN Fail([resp EXCEPT !.validation = <<>>],
              <<"Execution failed: ">> \o execution_result.error)
    ELSE LET r == [resp EXCEPT !.result = execution_result.data]
         IN  IF WantsChart(include_visualization, r.result[1])
             THEN Continue(r, "visualize")
             ELSE Succeed(r)

\* a failed execution is tried again
AfterExecution_Retry(resp, execution_result, include_visualization) ==
    IF ~execution_result.success
    THEN Continue(resp, "execute")
    ELSE LET r == [resp EXCEPT !.result = execution_result.data]
         IN  IF WantsChart(include_visualization, r.result[1])
             THEN Continue(r, "visualize")
             ELSE Succeed(r)

\* lines 202-210, and 222-233 when no chart is asked for
AfterExecution(resp, execution_result, include_visualization) ==
    IF ~execution_result.success
    THEN Fail(resp, <<"Execution failed: ">> \o execution_result.error)
    ELSE LET r == [resp EXCEPT !.result = execution_result.data]
         IN  IF WantsChart(include_visualization, r.result[1])
             THEN Continue(r, "visualize")
             ELSE Succeed(r)

\* a failed chart fails the request
AfterVisualization_Fatal(resp, viz_result) ==
    LET r == [resp EXCEPT !.result = <<viz_result.query_result>>]
    IN  IF viz_result.success /\ viz_result.data # <<>>
        THEN Succeed([r EXCEPT !.chart_html = viz_result.data])
        ELSE IF viz_result.success THEN Succeed(r)
        ELSE Fail(r, <<"Visualization failed">>)

\* lines 218-233; the agent worked on response.result itself
AfterVisualization(resp, viz_result) ==
    LET r == [resp EXCEPT !.result = <<viz_result.query_result>>]
    IN  IF viz_result.success /\ viz_result.data # <<>>
        THEN Succeed([r EXCEPT !.chart_html = viz_result.data])
        ELSE Succeed(r)

\* an AgentResult with success = False, as the agents build it in their except
Failure == [success |-> FALSE, data |-> <<>>, error |-> <<"error">>]

Outcomes == {"ok", "fail", "raise"}

\* the configurations tried
SettingsTried ==
    [ allow_destructive : BOOLEAN, max_query_rows : {1, 5}, max_chart_points : {1, 2} ]

\* the max_rows arguments tried: None, 0 and 2
MaxRowsTried == {<<>>, <<0>>, <<2>>}

\* the candidates SQLAgent.generate_sql returns
F_DropOrders ==
    <<"D","R","O","P"," ","T","A","B","L","E"," ","o","r","d","e","r","s">>

F_UpdateSet == <<"U","P","D","A","T","E"," ","t"," ","S","E","T"," ","a">>
F_WithCte ==
    <<" ","w","i","t","h"," ","c"," ","A","S"," ","(","S","E","L","E","C","T"," ","1",")",";">>
F_Open == <<" ","(">>

Generated ==
    { [sql |-> t, tables_used |-> <<"t">>, confidence_score |-> <<90>>] :
        t \in {F_Select, F_Select \o F_Limit2, F_Select \o F_limit7,
               F_DropOrders, F_Select \o F_DeleteFrom,
               F_UpdateSet, F_WithCte, F_Select \o F_Open,
               F_Select \o F_Semi, F_Select \o F_Semi \o F_Semi} }

\* the most rows DatabaseConnector.execute_query returns
MaxDbRows == 3

RECURSIVE Rows(_)
Rows(n) == IF n = 0 THEN <<>> ELSE Append(Rows(n - 1), n)

\* one agent call and the lines after it; detail is what the collaborators did
Step(agent, outcome, detail, next) ==
    /\ calls' = Append(calls, [agent |-> agent, outcome |-> outcome, detail |-> detail])
    /\ pc' = next.pc
    /\ response' = next.response
    /\ raised' = next.raised
    /\ UNCHANGED <<settings, request, vpc, vin, vout, schema_cache, requests, writers>>

\* lines 121-141
Start ==
    /\ pc = "start"
    /\ \E max_rows \in MaxRowsTried, include_visualization \in BOOLEAN :
          request' = NewRequest(max_rows, include_visualization, settings.max_query_rows)
    /\ response' = NewResponse
    /\ pc' = "schema"
    /\ UNCHANGED <<settings, calls, exec_out, raised, vpc, vin, vout, schema_cache, requests, writers>>

\* lines 144-156
GetSchemaContext ==
    /\ pc = "schema"
    /\ \E outcome \in Outcomes :
          Step("schema", outcome, <<>>,
               CASE outcome = "ok" ->
                        AfterSchema(response, [success |-> TRUE, data |-> <<>>, error |-> <<>>])
                 [] outcome = "fail" -> AfterSchema(response, Failure)
                 [] outcome = "raise" -> OnException(response))
    /\ UNCHANGED exec_out

\* lines 158-174
GenerateSql ==
    /\ pc = "generate"
    /\ \/ \E sql_query \in Generated :
             Step("generate", "ok", sql_query.sql,
                  AfterGeneration(response,
                      [success |-> TRUE, data |-> <<sql_query>>, error |-> <<>>]))
       \/ Step("generate", "fail", <<>>, AfterGeneration(response, Failure))
       \/ Step("generate", "raise", <<>>, OnException(response))
    /\ UNCHANGED exec_out

\* lines 176-195
ValidateSql ==
    /\ pc = "validate"
    /\ \E outcome \in Outcomes :
          Step("validate", outcome, <<>>,
               CASE outcome = "ok" ->
                        AfterValidation(response,
                            ValidationAgent_validate_query(response.sql[1],
                                settings.allow_destructive, settings.max_query_rows))
                 [] outcome = "fail" -> AfterValidation(response, Failure)
                 [] outcome = "raise" -> OnException(response))
    /\ UNCHANGED exec_out

\* lines 197-200: the arguments execute_query is called with, and the rows
\* DatabaseConnector.execute_query returned to it
Passed(rows) == [sql |-> response.sql[1].sql, max_rows |-> request.max_rows, rows |-> rows]

\* lines 197-210 (and 222-233)
ExecuteSql ==
    /\ pc = "execute"
    /\ \/ \E n \in 0..MaxDbRows :
             LET execution_result == ExecutionAgent_execute_query(Rows(n), request.max_rows)
             IN  /\ Step("execute", "ok", Passed(Rows(n)),
                         AfterExecution(response, execution_result,
                                        request.include_visualization))
                 /\ exec_out' = execution_result.data
       \/ /\ Step("execute", "fail", Passed(<<>>),
                  AfterExecution(response,
                                 ExecutionAgent_execute_query("raise", request.max_rows),
                                 request.include_visualization))
          /\ UNCHANGED exec_out
       \/ /\ Step("execute", "raise", Passed(<<>>), OnException(response))
          /\ UNCHANGED exec_out

\* lines 213-233
Visualize ==
    /\ pc = "visualize"
    /\ \/ \E recommender \in {"ok", "raise"}, renderer \in {"ok", "raise"} :
             LET viz_result == VisualizationAgent_generate_visualization(
                                   response.result[1], recommender, renderer,
                                   settings.max_chart_points)
             IN  Step("visualize", IF viz_result.success THEN "ok" ELSE "fail",
                      [recommender |-> recommender, renderer |-> renderer],
                      AfterVisualization(response, viz_result))
       \/ Step("visualize", "raise", <<>>, OnException(response))
    /\ UNCHANGED exec_out

Init ==
    /\ pc = "start"
    /\ settings \in SettingsTried
    /\ request = None
    /\ response = None
    /\ calls = <<>>
    /\ exec_out = <<>>
    /\ raised = FALSE
    /\ ValidatorIdle
    /\ CacheEmpty
    /\ NoRequests

Next == Start \/ GetSchemaContext \/ GenerateSql \/ ValidateSql \/ ExecuteSql \/ Visualize

Spec == Init /\ [][Next]_vars

-----------------------------------------------------------------------------
(* Several calls of process_query at the same time. They share the          *)
(* DatabaseConnector and its _schema_cache; each has its own locals and its  *)
(* own ChatbotResponse. The fetch of get_all_table_metadata is taken one     *)
(* table at a time, so that the fetches of two calls interleave. The stages  *)
(* after the schema stage, which Spec follows one by one, touch nothing      *)
(* shared and are one step here.                                            *)

\* what the database shows to the fetch of one call
ConcurrentLive ==
    { [raises |-> FALSE, tables |-> <<T_users>>, broken |-> {}],
      [raises |-> FALSE, tables |-> <<T_Orders, T_users>>, broken |-> {}],
      [raises |-> FALSE, tables |-> <<T_Orders, T_users>>, broken |-> {T_users.name}],
      [raises |-> TRUE, tables |-> <<>>, broken |-> {}] }

\* the list fetched is added to the list that is cached
Stored_Extend(cache, metadata_list) ==
    IF cache = <<>> THEN <<metadata_list>> ELSE <<cache[1] \o metadata_list>>

\* base.py line 106: self._schema_cache = metadata_list
Stored(cache, metadata_list) == <<metadata_list>>

\* the call i moves on
Moves(i, r) ==
    /\ requests' = [requests EXCEPT ![i] = r]
    /\ UNCHANGED <<pc, settings, request, response, calls, exec_out, raised, vpc, vin, vout>>

\* orchestrator.py lines 121-141
Begin(i) ==
    /\ requests[i].pc = "idle"
    /\ \E user_query \in {Q_ShowMeAllUsers, Q_Zzz} :
          Moves(i, [requests[i] EXCEPT !.pc = "schema", !.user_query = user_query,
                                       !.response = <<NewResponse>>])
    /\ UNCHANGED <<schema_cache, writers>>

\* base.py lines 91-97: the cache is looked at and, on a miss, get_tables is
\* called; when it raises, get_schema_context returns a failure and
\* process_query ends (orchestrator.py lines 151-154)
CheckCache(i) ==
    /\ requests[i].pc = "schema"
    /\ IF schema_cache # <<>>
       THEN Moves(i, [requests[i] EXCEPT !.pc = "filter",
                                         !.metadata_list = schema_cache[1]])
       ELSE \E live \in ConcurrentLive :
               IF live.raises
               THEN Moves(i, [requests[i] EXCEPT
                                 !.pc = "done", !.live = live,
                                 !.response =
                                     <<AfterSchema(requests[i].response[1], Failure).response>>])
               ELSE Moves(i, [requests[i] EXCEPT !.pc = "fetch", !.live = live,
                                                 !.next = 1, !.metadata_list = <<>>])
    /\ UNCHANGED <<schema_cache, writers>>

\* base.py lines 99-104: one turn of the loop over the tables
FetchTable(i) ==
    /\ requests[i].pc = "fetch"
    /\ requests[i].next <= Len(requests[i].live.tables)
    /\ LET table == requests[i].live.tables[requests[i].next]
       IN  Moves(i, [requests[i] EXCEPT
                        !.next = @ + 1,
                        !.metadata_list =
                            IF table.name \in requests[i].live.broken THEN @
                            ELSE Append(@, get_table_metadata(table, <<>>))])
    /\ UNCHANGED <<schema_cache, writers>>

\* base.py lines 106-108
Store(i) ==
    /\ requests[i].pc = "fetch"
    /\ requests[i].next > Len(requests[i].live.tables)
    /\ schema_cache' = Stored(schema_cache, requests[i].metadata_list)
    /\ writers' = Append(writers, i)
    /\ Moves(i, [requests[i] EXCEPT !.pc = "filter"])

\* schema_agent.py lines 43-51 and orchestrator.py lines 151-156
FilterTables(i) ==
    /\ requests[i].pc = "filter"
    /\ Moves(i, [requests[i] EXCEPT
                    !.pc = "rest",
                    !.tables = filter_relevant_tables(requests[i].user_query,
                                                      requests[i].metadata_list),
                    !.response =
                        <<AfterSchema(requests[i].response[1],
                                      [success |-> TRUE, data |-> <<>>,
                                       error |-> <<>>]).response>>])
    /\ UNCHANGED <<schema_cache, writers>>

\* orchestrator.py lines 158-240: the later stages end the call
Rest(i) ==
    /\ requests[i].pc = "rest"
    /\ \E succeeds \in BOOLEAN :
          Moves(i, [requests[i] EXCEPT
                       !.pc = "done",
                       !.response =
                           IF succeeds THEN <<Succeed(requests[i].response[1]).response>>
                           ELSE <<Fail(requests[i].response[1], <<"error">>).response>>])
    /\ UNCHANGED <<schema_cache, writers>>

InitConcurrent == PipelineIdle /\ ValidatorIdle /\ CacheEmpty /\ NoRequests

NextConcurrent ==
    \E i \in Requests :
        \/ Begin(i)
        \/ CheckCache(i)
        \/ FetchTable(i)
        \/ Store(i)
        \/ FilterTables(i)
        \/ Rest(i)

SpecConcurrent == InitConcurrent /\ [][NextConcurrent]_vars

-----------------------------------------------------------------------------
(* Properties of process_query (specification Spec)                        *)

Started == pc # "start"
Done == pc = "done"

Called(agent) == \E i \in DOMAIN calls : calls[i].agent = agent
CalledWith(agent, outcome) ==
    \E i \in DOMAIN calls : calls[i].agent = agent /\ calls[i].outcome = outcome

\* the validation stage returned a ValidationResult with safe_to_execute = true
ValidatedSafe ==
    /\ CalledWith("validate", "ok")
    /\ response.validation # <<>>
    /\ response.validation[1].safe_to_execute

\* C1: the execution agent is invoked only after the validation stage of
\* the same request returned a ValidationResult with safe_to_execute = true;
\* when validation failed or reported safe_to_execute = false, the execution
\* agent is never invoked.
C1_ExecutionOnlyAfterSafeValidation ==
    Started =>
        /\ Called("execute") => ValidatedSafe
        /\ (Called("validate") /\ ~ValidatedSafe) => ~Called("execute")

\* the query was executed behind a validation that reported it safe
C1_Witness == Done /\ Called("execute") /\ ValidatedSafe

Terminal == {SUCCESS, FAILED}

StatusRank(status) ==
    CASE status = PENDING -> 0
      [] status = VALIDATING -> 1
      [] status = EXECUTING -> 2
      [] status = SUCCESS -> 3
      [] status = FAILED -> 4

\* C2: the response starts Pending; every step leaves the status where it is
\* or moves it forward in Pending -> Validating -> Executing -> Success, or
\* to Failed; a status of Success or Failed never changes again.
C2_StatusMonotonic ==
    [][ /\ ~Started => response'.status = PENDING
        /\ Started =>
              /\ response.status \in Terminal => response'.status = response.status
              /\ \/ response'.status = FAILED
                 \/ StatusRank(response'.status) >= StatusRank(response.status)
              /\ response'.status = SUCCESS => response.status = EXECUTING ]_vars

\* a request that went through every status up to Success
C2_Witness == Done /\ response.status = SUCCESS /\ Called("visualize")

\* the stage of calls[i] failed: its agent returned a failure or raised, or
\* validation reported the query unsafe
StageFailed(i) ==
    \/ calls[i].outcome # "ok"
    \/ calls[i].agent = "validate" /\ ~response.validation[1].safe_to_execute

ReportedFailed == response.status = FAILED /\ response.error_message # <<>>

\* the visualization agent returned a failure (its renderer raised)
ChartFailed == CalledWith("visualize", "fail")

\* C3 as stated: process_query never raises, returns Success or Failed, and
\* every failure of a stage, visualization included, is reported as Failed
\* with an error message.
C3_AsStated ==
    /\ ~raised
    /\ Done =>
          /\ response.status \in Terminal
          /\ (\E i \in DOMAIN calls : StageFailed(i)) => ReportedFailed

\* C3, amended: process_query never raises and always reaches its return;
\* the response returned is Success or Failed; every failure of the schema,
\* generation, validation or execution stage and every exception leaving an
\* agent is reported as Failed with an error message; a failure returned by
\* the visualization agent leaves the response Success with no error message.
C3_NeverRaises ==
    /\ ~raised
    /\ ~Done => ENABLED Next
    /\ Done =>
          /\ response.status \in Terminal
          /\ response.status = FAILED => response.error_message # <<>>
          /\ \A i \in DOMAIN calls :
                (StageFailed(i) /\ ~(calls[i].agent = "visualize" /\ calls[i].outcome = "fail"))
                    => ReportedFailed
          /\ ChartFailed => response.status = SUCCESS /\ response.error_message = <<>>

\* an exception left an agent and the call still returned a response
C3_Witness == Done /\ (\E i \in DOMAIN calls : calls[i].outcome = "raise") /\ ReportedFailed

StageOrder == <<"schema", "generate", "validate", "execute", "visualize">>

\* the stages ran in order, each behind the success of the one before
InOrderAndGated ==
    /\ Len(calls) <= Len(StageOrder)
    /\ \A i \in DOMAIN calls :
          /\ calls[i].agent = StageOrder[i]
          /\ i > 1 => ~StageFailed(i - 1)

\* C4 as stated: the stages run in order, each only after every earlier one
\* succeeded; after the first stage failure, of whichever stage, no later
\* stage is called and the response is returned with status Failed.
C4_AsStated ==
    Started =>
        /\ InOrderAndGated
        /\ (\E i \in DOMAIN calls : StageFailed(i)) => Done /\ response.status = FAILED

\* C4, amended: the stages run in the order schema, generation, validation,
\* execution, visualization, each only after every earlier one succeeded;
\* after the first failure no later stage is called and the call returns,
\* with status Failed when the failed stage is schema, generation,
\* validation or execution or an exception left the agent, and with status
\* Success when the visualization agent returned a failure.
C4_StagesInOrder ==
    Started =>
        /\ InOrderAndGated
        /\ (\E i \in DOMAIN calls : StageFailed(i)) =>
              /\ Done
              /\ response.status = IF ChartFailed THEN SUCCESS ELSE FAILED

\* SQL generation failed: two stages ran and the response is Failed
C4_Witness ==
    /\ Done
    /\ Len(calls) = 2
    /\ calls[2].outcome = "fail"
    /\ response.status = FAILED

\* what the collaborators of the visualization agent did in this request
ChartDetail == calls[Len(calls)].detail

\* the chart recommender or the chart renderer raised
ChartCollaboratorFailed ==
    /\ Called("visualize")
    /\ calls[Len(calls)].outcome # "raise"
    /\ (ChartDetail.recommender = "raise" \/ ChartDetail.renderer = "raise")

\* the response ends Success with no error message and with the result of
\* the execution stage, whose rows the visualization agent has cut to
\* max_chart_points
StillSuccess ==
    /\ response.status = SUCCESS
    /\ response.result # <<>>
    /\ response.result[1].data = Prefix(exec_out[1].data, settings.max_chart_points)
    /\ response.result[1].row_count = exec_out[1].row_count
    /\ response.result[1].columns = exec_out[1].columns
    /\ response.result[1].truncated = exec_out[1].truncated
    /\ response.error_message = <<>>

DropOrdersValidated ==
    /\ Called("generate")
    /\ calls[2].outcome = "ok"
    /\ calls[2].detail = F_DropOrders
    /\ CalledWith("validate", "ok")

\* C7: when the generator returns "DROP TABLE orders" and allow_destructive
\* is false, process_query stops at validation: neither the executor nor
\* the visualizer is called, the status is Failed and the error message
\* contains "Destructive operation".
C7_DropTableStopsAtValidation ==
    (Started /\ DropOrdersValidated /\ ~settings.allow_destructive) =>
        /\ Done
        /\ ~Called("execute")
        /\ ~Called("visualize")
        /\ response.status = FAILED
        /\ response.error_message # <<>>
        /\ \E k \in DOMAIN response.error_message[1] :
              response.error_message[1][k] = DESTRUCTIVE_PREFIX

\* "DROP TABLE orders" was validated with allow_destructive = false
C7_Witness ==
    /\ Started
    /\ DropOrdersValidated
    /\ ~settings.allow_destructive
    /\ response.status = FAILED

-----------------------------------------------------------------------------
(* Properties of the validator (specification SpecValidator)               *)

Validated == vpc \in {"safety_validate_query", "validate_query"}
ValidatedSql == IF vpc = "validate_query" THEN vin.sql_query.sql ELSE vin.sql
ValidationErrors == IF vpc = "validate_query" THEN vout.data.errors ELSE vout[2]
ValidationIsValid == IF vpc = "validate_query" THEN vout.data.is_valid ELSE vout[1]

T_DROP_TABLE == <<"D","R","O","P"," ","T","A","B","L","E">>
T_TRUNCATE == <<"T","R","U","N","C","A","T","E">>
T_DELETE_FROM == <<"D","E","L","E","T","E"," ","F","R","O","M">>
DestructiveTexts == {T_DROP_TABLE, T_TRUNCATE, T_DELETE_FROM}

\* sql contains one of the three texts, in any letter case
MentionsDestructive(sql) == \E w \in DestructiveTexts : Contains(Upper(sql), w)

\* w stands at position i of u and adjoins no letter, digit or underscore
WholeAt(u, i, w) ==
    /\ LitAt(u, i, w)
    /\ (i = 1 \/ ~IsWordChar(u[i - 1]))
    /\ (i + Len(w) > Len(u) \/ ~IsWordChar(u[i + Len(w)]))

\* sql contains one of the three texts as whole words, in any letter case
StatesDestructive(sql) ==
    \E w \in DestructiveTexts : \E i \in 1..Len(sql) : WholeAt(Upper(sql), i, w)

NoDestructiveEntry ==
    \A k \in DOMAIN ValidationErrors : ValidationErrors[k][1] # DESTRUCTIVE_PREFIX

Rejected == ~ValidationIsValid /\ ValidationErrors # <<>>

\* C6 as stated: every SQL string that contains DROP TABLE, TRUNCATE or
\* DELETE FROM in any letter case is invalid with a non-empty errors list
\* under allow_destructive = false, and has no 'Destructive operation
\* detected' entry under allow_destructive = true.
C6_AsStated ==
    (Validated /\ MentionsDestructive(ValidatedSql)) =>
        IF vin.allow_destructive THEN NoDestructiveEntry ELSE Rejected

\* C6, amended: every SQL string that contains DROP TABLE, TRUNCATE or
\* DELETE FROM as whole words (adjoining no letter, digit or underscore), in
\* any letter case, is invalid with a non-empty errors list under
\* allow_destructive = false; under allow_destructive = true no SQL string
\* gets a 'Destructive operation detected' entry in its errors.
C6_DestructiveRejected ==
    Validated =>
        /\ (StatesDestructive(ValidatedSql) /\ ~vin.allow_destructive) => Rejected
        /\ vin.allow_destructive => NoDestructiveEntry

\* "SELECT a FROM t delete from t" was rejected under allow_destructive = false
C6_Witness ==
    /\ vpc = "validate_query"
    /\ ValidatedSql = F_Select \o F_DeleteFrom
    /\ ~vin.allow_destructive
    /\ Rejected
    /\ ~NoDestructiveEntry

Rewritten == vpc \in {"add_limit_clause", "validate_query"}
RewriteInput == IF vpc = "validate_query" THEN vin.sql_query.sql ELSE vin.sql
RewriteOutput == IF vpc = "validate_query" THEN vout.sql ELSE vout


\* the text in front of the last Len(w) characters of s
Before(s, w) == SubSeq(s, 1, Len(s) - Len(w))

\* C8: for every SQL string with no LIMIT clause, also one that ends in a
\* statement terminator optionally followed by whitespace, the rewrite with
\* max_rows = N yields SQL that ends in LIMIT N, and the text in front of
\* that LIMIT no longer ends in a statement terminator.
C8_LimitAppended ==
    (Rewritten /\ ~Contains(Upper(RewriteInput), K_LIMIT)) =>
        /\ EndsWith(RewriteOutput, LimitText(vin.max_rows))
        /\ ~EndsWith(RStrip(Before(RewriteOutput, LimitText(vin.max_rows))), <<";">>)

\* the numbers k of the clauses LIMIT k in s
Limits(s) ==
    LET u == Upper(s)
    IN  {ParseInt(LimitMatchGroup(s, u, i)) : i \in {j \in 1..Len(s) : LimitMatchAt(u, j)}}

\* C9: for every SQL string with one or several clauses LIMIT k and every
\* cap N: when every k <= N the rewritten SQL is identical to the input;
\* for every k > N the rewritten SQL contains LIMIT N and no LIMIT k.
C9_LimitCapped ==
    (Rewritten /\ Limits(RewriteInput) # {}) =>
        /\ (\A k \in Limits(RewriteInput) : k <= vin.max_rows) => RewriteOutput = RewriteInput
        /\ \A k \in Limits(RewriteInput) :
              k > vin.max_rows =>
                  /\ vin.max_rows \in Limits(RewriteOutput)
                  /\ k \notin Limits(RewriteOutput)

\* C10: the rewrite never grows a limit: every clause LIMIT k of the input
\* with k < N is still a clause LIMIT k of the rewritten SQL.
C10_NeverGrows ==
    Rewritten =>
        \A k \in Limits(RewriteInput) : k < vin.max_rows => k \in Limits(RewriteOutput)

\* C11: the row-limit rewrite is idempotent: add_limit_clause applied to its
\* own result with the same cap returns that result, and a second validation
\* of a candidate with the same max_rows leaves its SQL as the first left it.
C11_RewriteIdempotent ==
    /\ vpc = "add_limit_clause_again" => vout.second = vout.first
    /\ vpc = "validate_query_again" => vout.second.sql = vout.first.sql

\* a SQL text without LIMIT was rewritten, and rewritten again to the same text
C11_Witness ==
    /\ vpc = "add_limit_clause_again"
    /\ vin.sql = F_Select \o F_Semi
    /\ vout.first # vin.sql
    /\ vout.second = vout.first

\* the costs estimated in this state
CostsEstimated ==
    IF vpc = "validate_query" THEN {vout.data.estimated_cost}
    ELSE IF vpc = "estimate_cost" THEN {vout.cost, vout.more_cost}
    ELSE {}

\* C12: the estimated cost is within [0, 1] (0 to 100 hundredths) for every
\* SQL string and every tables_used list, also for SQL with no SELECT
\* keyword and an empty table list.
C12_CostInUnitInterval == \A cost \in CostsEstimated : 0 <= cost /\ cost <= 100

\* C13: with every other feature of the query held fixed, one more JOIN or
\* one more table in tables_used never lowers the estimated cost, also at
\* the cap of 1.0.
C13_CostMonotone == vpc = "estimate_cost" => vout.more_cost >= vout.cost

\* a JOIN raised the cost of a query below the cap
C13_Witness ==
    /\ vpc = "estimate_cost"
    /\ vin.more_sql = vin.sql \o F_Join
    /\ vout.cost < vout.more_cost
    /\ vout.more_cost < 100

Filtered == vpc = "filter_relevant_tables"

\* w is a whitespace-separated token of the case-folded text q
IsToken(q, w) ==
    \E i \in 1..Len(q) : \E j \in i..Len(q) :
        /\ w = Lower(SubSeq(q, i, j))
        /\ \A k \in i..j : ~IsSpace(q[k])
        /\ (i = 1 \/ IsSpace(q[i - 1]))
        /\ (j = Len(q) \/ IsSpace(q[j + 1]))

\* the names of a table: its own and those of its columns, case-folded
NamesOf(table) ==
    {Lower(table.name)} \cup {Lower(table.columns[k].name) : k \in DOMAIN table.columns}

\* the text w occurs in the name of the table or of one of its columns
Mentions(table, w) == \E n \in NamesOf(table) : Contains(n, w)

W_users == <<"u","s","e","r","s">>
W_show == <<"s","h","o","w">>
W_me == <<"m","e">>
W_all == <<"a","l","l">>

\* the catalog has a table named users
HasUsers(catalog) == \E k \in DOMAIN catalog : catalog[k].name = W_users

\* the filter returned the users table and nothing else
OnlyUsers == Len(vout) = 1 /\ vout[1].name = W_users

\* C14 as stated: for "show me all users" and a catalog with a table named
\* users in which no other table name or column name contains users, the
\* filter returns exactly the users table.
C14_AsStated ==
    ( /\ Filtered
      /\ vin.user_query = Q_ShowMeAllUsers
      /\ HasUsers(vin.all_tables)
      /\ \A k \in DOMAIN vin.all_tables :
            vin.all_tables[k].name # W_users => ~Mentions(vin.all_tables[k], W_users) )
    => OnlyUsers

\* C14, amended: for "show me all users" and a catalog with a table named
\* users in which no other table has a table name or a column name that
\* contains one of the tokens show, me, all, users, the filter returns
\* exactly the users table.
C14_UsersOnly ==
    ( /\ Filtered
      /\ vin.user_query = Q_ShowMeAllUsers
      /\ HasUsers(vin.all_tables)
      /\ \A k \in DOMAIN vin.all_tables :
            vin.all_tables[k].name # W_users =>
                \A w \in {W_show, W_me, W_all, W_users} : ~Mentions(vin.all_tables[k], w) )
    => OnlyUsers

\* users was picked out of a catalog of more than 20 tables
C14_Witness ==
    /\ Filtered
    /\ vin.user_query = Q_ShowMeAllUsers
    /\ Len(vin.all_tables) > FallbackTables
    /\ HasUsers(vin.all_tables)
    /\ OnlyUsers

\* the table has a name or a column name that contains a token of the query
Matching(table) == \E n \in NamesOf(table) :
    \E i \in 1..Len(n) : \E j \in i..Len(n) : IsToken(vin.user_query, SubSeq(n, i, j))

\* C15: when no whitespace-separated, case-folded token of the query is a
\* substring of a (case-folded) table name or column name of the catalog,
\* the filter returns the first 20 tables in catalog order, or the whole
\* catalog if it has fewer; otherwise it returns exactly the tables with a
\* matching name or column, in catalog order.
C15_FilterOrFallback ==
    Filtered =>
        IF \A k \in DOMAIN vin.all_tables : ~Matching(vin.all_tables[k])
        THEN /\ Len(vout) = Min(Len(vin.all_tables), 20)
             /\ \A k \in DOMAIN vout : vout[k] = vin.all_tables[k]
        ELSE vout = SelectSeq(vin.all_tables, Matching)

\* no token matched a catalog of 21 tables and the first 20 came back
C15_Witness ==
    /\ Filtered
    /\ vin.user_query = Q_Zzz
    /\ Len(vin.all_tables) = 21
    /\ Len(vout) = 20

-----------------------------------------------------------------------------
(* Further properties of process_query (specification Spec)                *)

Executed == CalledWith("execute", "ok")

\* C16: the visualization agent is invoked only when include_visualization
\* is true and the execution result has more than 0 rows; when execution
\* succeeds with 0 rows, or include_visualization is false, visualization is
\* skipped and the response ends with status Success and no chart.
C16_ChartOnlyForRows ==
    Started =>
        /\ Called("visualize") =>
              /\ Executed
              /\ request.include_visualization
              /\ exec_out[1].row_count > 0
        /\ (Executed /\ (~request.include_visualization \/ exec_out[1].row_count = 0)) =>
              /\ Done
              /\ ~Called("visualize")
              /\ response.status = SUCCESS
              /\ response.chart_html = <<>>

\* a chart was asked for and the query returned no row
C16_Witness ==
    /\ Done
    /\ Executed
    /\ request.include_visualization
    /\ exec_out[1].row_count = 0
    /\ response.status = SUCCESS

\* the text of the error message is not empty
HasMessage ==
    /\ response.error_message # <<>>
    /\ response.error_message[1] # <<>>
    /\ \A k \in DOMAIN response.error_message[1] : response.error_message[1][k] # ""

\* C17: every response returned carries a status, and every response with
\* status Failed carries a non-empty error message, whichever stage failed.
C17_FailedHasMessage ==
    Done =>
        /\ response.status \in {PENDING, VALIDATING, EXECUTING, SUCCESS, FAILED}
        /\ response.status = FAILED => HasMessage

\* the execution stage failed and the response says so
C17_Witness ==
    /\ Done
    /\ CalledWith("execute", "fail")
    /\ response.status = FAILED
    /\ HasMessage

\* the candidate attached to the response is the generated one: its tables
\* and confidence as generated, its SQL as generated or as validation rewrote it
CarriesCandidate ==
    /\ response.sql # <<>>
    /\ response.sql[1].tables_used = <<"t">>
    /\ response.sql[1].confidence_score = <<90>>
    /\ response.sql[1].sql \in
          {calls[2].detail} \cup
          {add_limit_clause(calls[2].detail, n) :
              n \in {request.max_rows, settings.max_query_rows}}

\* C18: a Failed response still carries what the stages that succeeded have
\* produced: the candidate SQL once generation succeeded (with the row limit
\* validation gave it), the validation outcome once validation returned one,
\* the result once execution succeeded; no failure clears such a field.
C18_PartialResultsKept ==
    (Done /\ response.status = FAILED) =>
        /\ CalledWith("generate", "ok") => CarriesCandidate
        /\ CalledWith("validate", "ok") => response.validation # <<>>
        /\ Executed => response.result # <<>> /\ response.result[1].row_count = exec_out[1].row_count

\* execution failed behind a validation that passed
C18_Witness ==
    /\ Done
    /\ response.status = FAILED
    /\ CalledWith("execute", "fail")
    /\ CarriesCandidate
    /\ response.validation # <<>>
    /\ response.validation[1].safe_to_execute

TimesCalled(agent) == Cardinality({i \in DOMAIN calls : calls[i].agent = agent})

\* C19: within one call of process_query the schema fetch, the SQL
\* generation and the execution are each attempted at most once; none is
\* tried again after it failed.
C19_NoRetry ==
    Started =>
        /\ \A agent \in {"schema", "generate", "execute"} : TimesCalled(agent) <= 1
        /\ \A i \in DOMAIN calls :
              calls[i].outcome # "ok" => Done /\ i = Len(calls)

\* the one execution failed and the call returned
C19_Witness ==
    /\ Done
    /\ CalledWith("execute", "fail")
    /\ TimesCalled("execute") = 1
    /\ TimesCalled("schema") = 1
    /\ TimesCalled("generate") = 1

-----------------------------------------------------------------------------
(* Properties of the schema cache (specification SpecSchema)               *)

Retrieved == {"get_all_table_metadata", "get_schema_context"}

\* C20: a schema retrieval with use_cache = true that finds a cached
\* catalog, also an empty one, returns that catalog, fetches nothing from
\* the database and leaves the cache as it is; a retrieval on a miss or with
\* use_cache = false fetches from the database, and the catalog fetched
\* replaces the cached one.
C20_CacheHitNoFetch ==
    [][ vpc' \in Retrieved =>
          IF vin'.use_cache /\ schema_cache # <<>>
          THEN /\ ~vout'.fetched
               /\ schema_cache' = schema_cache
               /\ vpc' = "get_all_table_metadata" =>
                     ~vout'.raised /\ vout'.result = schema_cache[1]
               /\ vpc' = "get_schema_context" => vout'.success
          ELSE /\ vout'.fetched
               /\ (vpc' = "get_all_table_metadata" /\ ~vout'.raised) =>
                     schema_cache' = <<vout'.result>>
               /\ (vpc' = "get_schema_context" /\ vout'.success) =>
                     schema_cache' # <<>> ]_vars

\* an empty catalog was cached and a retrieval with use_cache = true got it
\* without a fetch
C20_Witness ==
    /\ vpc = "get_all_table_metadata"
    /\ vin.use_cache
    /\ ~vout.fetched
    /\ vout.result = <<>>
    /\ schema_cache = << <<>> >>

\* the tables a retrieval returned
TablesReturned ==
    IF vpc = "get_all_table_metadata" THEN vout.result
    ELSE IF vpc = "get_schema_context" THEN vout.tables
    ELSE <<>>

\* the schema name get_table_metadata writes into a table fetched for schema
SchemaNameOf(schema) == IF schema = <<>> THEN "default" ELSE schema[1]

\* C21: the cache is keyed by schema name: a retrieval for schema name s
\* returns only tables of a catalog that was fetched for s, never tables
\* fetched and stored for another schema name.
C21_CacheKeyedBySchema ==
    vpc \in Retrieved =>
        \A k \in DOMAIN TablesReturned : TablesReturned[k].schema = SchemaNameOf(vin.schema)

\* a retrieval that prefers the cache has just returned
CachePreferring == vpc \in Retrieved /\ vin.use_cache

\* a retrieval that is told to skip the cache has just returned
CacheSkipping == vpc \in Retrieved /\ ~vin.use_cache

\* the first cache-preferring retrieval after clear_cache fetches from the
\* database and, when the fetch succeeds, stores the catalog it fetched
FirstAfterClearFetches ==
    vpc = "clear_cache" /\ CachePreferring' =>
        /\ vout'.fetched
        /\ vpc' = "get_all_table_metadata" /\ ~vout'.raised =>
              schema_cache' = <<vout'.result>>
        /\ vpc' = "get_schema_context" /\ vout'.success => schema_cache' # <<>>

\* a cache-preferring retrieval that finds a catalog returns that catalog
HitReturnsCached ==
    schema_cache # <<>> /\ CachePreferring' /\ vpc' = "get_all_table_metadata" =>
        ~vout'.raised /\ vout'.result = schema_cache[1]

\* C22 as stated: a cached catalog lives until an explicit clear: once a
\* catalog is cached, no step other than clear_cache changes it, so every
\* cache-preferring retrieval returns that same catalog; the first
\* cache-preferring retrieval after clear_cache fetches and stores.
C22_AsStated ==
    [][ /\ schema_cache # <<>> /\ vpc' # "clear_cache" => schema_cache' = schema_cache
        /\ HitReturnsCached
        /\ FirstAfterClearFetches ]_vars

\* C22: a cached catalog lives until an explicit clear or a retrieval with
\* use_cache = false: once a catalog is cached, a step that is neither
\* changes nothing in the cache, so every cache-preferring retrieval returns
\* the catalog of the latest successful fetch; a retrieval with
\* use_cache = false that succeeds replaces the cached catalog by the one it
\* fetched; the first cache-preferring retrieval after clear_cache fetches
\* and stores.
C22_CachedUntilClearOrRefetch ==
    [][ /\ schema_cache # <<>> /\ vpc' # "clear_cache" /\ ~CacheSkipping' =>
              schema_cache' = schema_cache
        /\ CacheSkipping' /\ vpc' = "get_all_table_metadata" =>
              /\ vout'.fetched
              /\ schema_cache' = IF vout'.raised THEN schema_cache ELSE <<vout'.result>>
        /\ HitReturnsCached
        /\ FirstAfterClearFetches ]_vars

\* a cache-preferring retrieval returned the cached catalog, one with
\* tables, without a fetch
C22_Witness ==
    /\ vpc = "get_all_table_metadata"
    /\ vin.use_cache
    /\ ~vout.fetched
    /\ vout.result # <<>>
    /\ schema_cache = <<vout.result>>

\* the result of validate_query carries the low-confidence warning
WarnsLowConfidence ==
    \E k \in DOMAIN vout.data.warnings :
        vout.data.warnings[k][1] = LOW_CONFIDENCE_WARNING

\* C23: validate_query appends the low-confidence warning exactly for the
\* candidates whose confidence score is present and below 0.6, the score 0.0
\* included, and the warning does not make the query invalid: is_valid is
\* still decided by the errors alone.
C23_LowConfidenceWarned ==
    vpc = "validate_query" =>
        LET score == vin.sql_query.confidence_score
        IN  /\ WarnsLowConfidence <=> (score # <<>> /\ score[1] < 60)
            /\ vout.data.is_valid <=> (vout.data.errors = <<>>)

\* the blocking rules of validate_query that the validated query violates:
\* the syntax check, one rule per destructive pattern (when destructive
\* queries are not allowed), the empty query and the multiple statements
RulesViolated ==
    LET sql == vin.sql_query.sql
    IN  (IF ~check_syntax(sql) THEN {SYNTAX_ERROR} ELSE {})
        \cup {<<DESTRUCTIVE_PREFIX, DESTRUCTIVE_KEYWORDS[k]>> :
                 k \in {j \in DOMAIN DESTRUCTIVE_KEYWORDS :
                           /\ ~vin.allow_destructive
                           /\ SearchDestructive(DESTRUCTIVE_KEYWORDS[j], Upper(sql))}}
        \cup (IF IsBlank(sql) THEN {EMPTY_ERROR} ELSE {})
        \cup (IF Count(sql, <<";">>) > 1 THEN {MULTIPLE_ERROR} ELSE {})

\* C24: every result of validate_query has is_valid = safe_to_execute =
\* (errors is empty), whatever the warnings are; every blocking rule is
\* evaluated, so the errors are exactly one error per rule the query violates.
C24_ValidIffNoErrors ==
    vpc = "validate_query" =>
        /\ vout.success
        /\ vout.data.is_valid <=> (vout.data.errors = <<>>)
        /\ vout.data.safe_to_execute <=> vout.data.is_valid
        /\ {vout.data.errors[k] : k \in DOMAIN vout.data.errors} = RulesViolated
        /\ Len(vout.data.errors) = Cardinality(RulesViolated)

\* a query that violates three blocking rules got three errors, and warnings
C24_Witness ==
    /\ vpc = "validate_query"
    /\ Len(vout.data.errors) >= 3
    /\ vout.data.warnings # <<>>
    /\ ~vout.data.is_valid

\* a query with warnings and no error is valid
C24_WarnedAndValid ==
    /\ vpc = "validate_query"
    /\ vout.data.warnings # <<>>
    /\ vout.data.is_valid

\* the call of the execution agent, once it was made
ExecuteCall == calls[CHOOSE i \in DOMAIN calls : calls[i].agent = "execute"]

\* the row cap of the request: the max_rows override of process_query when
\* one is given, the configured default otherwise
EffectiveCap ==
    IF request.max_rows_arg # <<>> THEN request.max_rows_arg[1]
    ELSE settings.max_query_rows

\* C25: the execution result never exceeds the effective row cap: row_count
\* is the smaller of the number of rows the database returned and the cap,
\* the rows kept are the first cap rows in order, and truncated is true
\* exactly when the database returned more than cap rows.
C25_RowCap ==
    Executed =>
        LET returned == ExecuteCall.detail.rows
            result == exec_out[1]
        IN  /\ result.row_count = Min(Len(returned), EffectiveCap)
            /\ result.data = Prefix(returned, EffectiveCap)
            /\ result.truncated <=> Len(returned) > EffectiveCap

\* C29: the execution result does not change once it is attached to the
\* response: whatever the visualization stage does, the result of the response
\* stays the one the execution stage produced (rows, columns, row_count,
\* truncated), so on every Success response row_count is the number of rows
\* of the result.
C29_ResultImmutable ==
    (Started /\ response.result # <<>>) =>
        /\ response.result = exec_out
        /\ response.status = SUCCESS =>
              response.result[1].row_count = Len(response.result[1].data)

\* sql.strip().upper() starts with SELECT or WITH
IsReadStatement(sql) ==
    LET u == Strip(Upper(sql))
    IN  StartsWith(u, K_SELECT) \/ StartsWith(u, K_WITH)

\* sql.strip().upper() starts with DROP, DELETE, TRUNCATE or UPDATE
IsWriteStatement(sql) ==
    LET u == Strip(Upper(sql))
    IN  \E k \in {K_DROP, K_DELETE, K_TRUNCATE, K_UPDATE} : StartsWith(u, k)

\* C30: whatever allow_destructive is, every SQL text process_query passes
\* to the executor starts, trimmed and in any letter case, with SELECT or
\* WITH, has as many "(" as ")" and holds at most one semicolon; a statement
\* that starts with DROP, DELETE, TRUNCATE or UPDATE is never passed to the
\* executor.
C30_OnlyReadStatementsExecuted ==
    Started =>
        \A i \in DOMAIN calls :
            calls[i].agent = "execute" =>
                LET sql == calls[i].detail.sql
                IN  /\ IsReadStatement(sql)
                    /\ ~IsWriteStatement(sql)
                    /\ Count(sql, <<"(">>) = Count(sql, <<")">>)
                    /\ Count(sql, <<";">>) <= 1

\* with allow_destructive = true a SELECT that also holds DELETE FROM was
\* passed to the executor
C30_Witness ==
    /\ Done
    /\ settings.allow_destructive
    /\ Executed
    /\ Contains(Upper(ExecuteCall.detail.sql), K_DELETE)

\* with allow_destructive = true the WITH statement was passed to the executor
C30_WithExecuted ==
    /\ Done
    /\ Executed
    /\ StartsWith(Strip(Upper(ExecuteCall.detail.sql)), K_WITH)

Inferred == vpc = "infer_relationships"

\* (from_table, from_column, to_table) of the relationships emitted
Emitted ==
    {<<vout[k].from_table, vout[k].from_column, vout[k].to_table>> : k \in DOMAIN vout}

\* the lowercase name of the column is the lowercase name of the table
\* followed by _id or by id
RefersTo(column, table) ==
    \E suffix \in {S__id, S_id} : Lower(column.name) = Lower(table.name) \o suffix

\* (table, column, T) for every column of a table of the set whose name is
\* the name of a table T of the set followed by _id or id
Expected ==
    UNION { UNION { { <<vin.tables[t].name, vin.tables[t].columns[c].name,
                        vin.tables[o].name>> :
                        o \in {x \in DOMAIN vin.tables :
                                  RefersTo(vin.tables[t].columns[c], vin.tables[x])} } :
                    c \in DOMAIN vin.tables[t].columns } :
            t \in DOMAIN vin.tables }

\* C27: relationship inference strips the suffix: for every table set, a
\* relationship (table, column) -> (T, id) is emitted for every column whose
\* lowercase name is X followed by _id or id, X possibly holding the letters
\* id itself as in video_id, and every table T of the set whose lowercase
\* name is X; no relationship is emitted for any other column and table.
C27_SuffixStripped ==
    Inferred =>
        /\ Emitted = Expected
        /\ \A k \in DOMAIN vout : vout[k].to_column = S_id

\* C28: every relationship emitted points to another table of the candidate
\* set: to_table is the name of a table of the list, to_column is id, and
\* to_table is not from_table.
C28_PointsToAnotherTable ==
    Inferred =>
        \A k \in DOMAIN vout :
            /\ \E t \in DOMAIN vin.tables : vin.tables[t].name = vout[k].to_table
            /\ vout[k].to_column = S_id
            /\ vout[k].to_table # vout[k].from_table

-----------------------------------------------------------------------------
(* Properties of concurrent calls (specification SpecConcurrent)            *)

\* the catalog one uninterrupted get_all_table_metadata fetches from live
WholeCatalog(live) == get_all_table_metadata(<<>>, <<>>, TRUE, live).result

AllDone == \A i \in Requests : requests[i].pc = "done"

LastWriter == writers[Len(writers)]

\* the cache is empty until a call stores, and then holds the whole catalog
\* the last writer fetched
CacheIsLastWritersCatalog ==
    IF writers = <<>> THEN schema_cache = <<>>
    ELSE schema_cache = <<WholeCatalog(requests[LastWriter].live)>>

\* a step changes the locals and the response of one call at most
OneCallMoves ==
    Cardinality({i \in Requests : requests'[i] # requests[i]}) <= 1

\* C26: calls that run at the same time and miss the cache each make their
\* own fetch; at every moment, and so after all of them have finished, the
\* cache holds one whole catalog, the one the last writer fetched, never a
\* mixture of two fetches; a step of one call changes no field of the
\* response of another call.
C26_LastWriterWins ==
    /\ [](CacheIsLastWritersCatalog)
    /\ [][OneCallMoves]_vars
    /\ [][\A i \in Requests :
             requests[i].pc = "done" => requests'[i].response = requests[i].response]_vars

\* both calls missed the cache, fetched different catalogs and finished; the
\* cache holds the catalog of the second writer
C26_Witness ==
    /\ AllDone
    /\ Len(writers) >= 2
    /\ WholeCatalog(requests[writers[1]].live) # WholeCatalog(requests[writers[2]].live)
    /\ schema_cache = <<WholeCatalog(requests[LastWriter].live)>>

=============================================================================
